---- MODULE Spec2Model ----
(***************************************************************************)
(* token-prices: the change-log store (src/utils/storage.ts) and the       *)
(* caching pricing client (src/npm/client.ts).                             *)
(*                                                                         *)
(* Store values.  A ModelPricing object is a function from its own keys to *)
(* values; an optional key may be missing or hold JavaScript's undefined.  *)
(* Every field value is a small integer (a model id, a name, a price, a    *)
(* metadata token), so that undefined can be told from every value.        *)
(***************************************************************************)
EXTENDS Integers, Sequences, FiniteSets, TLC

VARIABLES
    now,        \* the wall clock, in ticks (Date.now())
    files,      \* history/prices/<provider>.json: NoFile or the JSON content
    upd,        \* updateProviderPrices: each task's position and locals
    ret,        \* updateProviderPrices: each task's last outcome
    ncalls,     \* number of operations started so far
    fnIn,       \* pure functions: the arguments of the call under study
    fnOut,      \* pure functions: its result
    cfg,        \* CostClient: the options it was constructed with
    cache,      \* CostClient.cache: effective provider -> CacheEntry
    external,   \* the store behind options.externalCache
    shown,      \* CostClient.deprecationWarningsShown
    published,  \* the day of the "current" data the server publishes
    endpointDeprecated, \* whether the published files carry a deprecation marker
    lk,         \* a lookup in flight: each task's position and locals
    res,        \* what the lookup that finished in the latest step gave its caller
    fetchedToday, \* the providers a fetch was issued for on the present client-day
                \* since their cache entry was last cleared
    signals,    \* deprecation callbacks and warnings so far, per provider
    served,     \* per provider, the client-day of the lookup whose fetch was stored
    marked      \* the providers for which a file with a deprecation marker was resolved

pureVars == <<fnIn, fnOut>>
storeVars == <<files, upd, ret>>
clientVars ==
    <<cfg, cache, external, shown, published, endpointDeprecated, lk, res,
      fetchedToday, signals, served, marked>>

-----------------------------------------------------------------------------
(* Bounds of the model *)

MaxNow == 1
MaxCalls == 3
MaxEvents == 3
MaxReplay == 2
MaxDays == 2
MantissaBits == 4
MaxPublished == 1
SignalCap == 2

(* Program constants *)

TicksPerDay == 2

-----------------------------------------------------------------------------
(* Value universe of the store *)

Undefined == -1
NoFile == [exists |-> FALSE]
StoreProviders == {"openai"}
Tasks == {1, 2}
ModelIds == {1, 2}

ComparableKeys ==
    {"modelId", "inputPricePerMillion", "outputPricePerMillion",
     "cachedInputPricePerMillion", "contextWindow", "maxOutputTokens"}

\* obj[key] in JavaScript: a missing key reads as undefined
Field(obj, key) == IF key \in DOMAIN obj THEN obj[key] ELSE Undefined

\* { ...obj, key: value }
With(obj, key, value) ==
    [k \in DOMAIN obj \cup {key} |-> IF k = key THEN value ELSE obj[k]]

BasePricing(id) ==
    [modelId |-> id, modelName |-> 1,
     inputPricePerMillion |-> 1, outputPricePerMillion |-> 2]

\* The records a crawler may hand over for one model id: the base record and
\* the records that differ from it in one field.
PricingVariants(id) ==
    {BasePricing(id),
     With(BasePricing(id), "modelName", 2),
     With(BasePricing(id), "inputPricePerMillion", 3),
     With(BasePricing(id), "outputPricePerMillion", 4),
     With(BasePricing(id), "cachedInputPricePerMillion", 1),
     With(BasePricing(id), "cachedInputPricePerMillion", Undefined),
     With(BasePricing(id), "contextWindow", 8),
     With(BasePricing(id), "maxOutputTokens", 4),
     With(BasePricing(id), "metadata", 7)}

\* The records the crawl cycles of the store specification hand over.
\* the first model changes its price (and carries an explicit undefined), the
\* others keep theirs
CrawlVariants(id) ==
    IF id = 1
    THEN {BasePricing(id),
          With(With(BasePricing(id), "inputPricePerMillion", 3),
               "cachedInputPricePerMillion", Undefined)}
    ELSE {BasePricing(id)}

\* The records of crawls between which the first model changes its metadata,
\* its display name, or its metadata together with a price.
MetadataVariants(id) ==
    IF id = 1
    THEN {BasePricing(id),
          With(BasePricing(id), "metadata", 7),
          With(BasePricing(id), "modelName", 2),
          With(With(BasePricing(id), "metadata", 7), "inputPricePerMillion", 3)}
    ELSE {BasePricing(id)}

Range(s) == {s[i] : i \in DOMAIN s}

\* Lists of at most Cardinality(ModelIds) records with pairwise distinct ids
UniqueLists(variants(_)) ==
    LET idSeqs == UNION {[1..n -> ModelIds] : n \in 0..Cardinality(ModelIds)}
        inj == {s \in idSeqs : \A i, j \in DOMAIN s : i # j => s[i] # s[j]}
    IN UNION {{l \in [DOMAIN s -> UNION {variants(id) : id \in ModelIds}] :
                  \A i \in DOMAIN s : l[i] \in variants(s[i])} : s \in inj}

-----------------------------------------------------------------------------
(* JavaScript Map: entries <<key, value>> in insertion order, keys unique *)

MapHas(m, k) == \E i \in DOMAIN m : m[i][1] = k

MapGet(m, k) ==
    IF MapHas(m, k) THEN (CHOOSE e \in Range(m) : e[1] = k)[2] ELSE Undefined

\* set: an existing key keeps its place, a new key goes last
MapSet(m, k, v) ==
    IF MapHas(m, k)
    THEN [i \in DOMAIN m |-> IF m[i][1] = k THEN <<k, v>> ELSE m[i]]
    ELSE Append(m, <<k, v>>)

\* a delete that empties the map when the key is not in it
MapDeleteOrClear(m, k) == IF MapHas(m, k) THEN SelectSeq(m, LAMBDA e : e[1] # k) ELSE <<>>

\* delete: the other entries keep their order; nothing happens for an absent key
MapDelete(m, k) == SelectSeq(m, LAMBDA e : e[1] # k)

MapValues(m) == [i \in DOMAIN m |-> m[i][2]]

RECURSIVE MapOf(_)
\* new Map(list.map(p => [p.modelId, p]))
MapOf(list) ==
    IF list = <<>> THEN <<>>
    ELSE LET front == SubSeq(list, 1, Len(list) - 1)
             last == list[Len(list)]
         IN MapSet(MapOf(front), last.modelId, last)

-----------------------------------------------------------------------------
(* JSON.stringify followed by JSON.parse: keys holding undefined are dropped *)

JSONPricing(p) == [k \in {k \in DOMAIN p : p[k] # Undefined} |-> p[k]]

JSONChange(c) ==
    IF "previousPricing" \in DOMAIN c
    THEN [date |-> c.date, changeType |-> c.changeType,
          pricing |-> JSONPricing(c.pricing),
          previousPricing |-> JSONPricing(c.previousPricing)]
    ELSE [date |-> c.date, changeType |-> c.changeType,
          pricing |-> JSONPricing(c.pricing)]

JSONHistory(h) ==
    [exists |-> TRUE, provider |-> h.provider, lastCrawled |-> h.lastCrawled,
     pricingUrl |-> h.pricingUrl,
     changes |-> [i \in DOMAIN h.changes |-> JSONChange(h.changes[i])]]

-----------------------------------------------------------------------------
(* storage.ts *)

\* a replay that ignores "removed"
getCurrentSnapshotStepKeep(modelsMap, change) ==
    IF change.changeType \in {"added", "updated"}
    THEN MapSet(modelsMap, change.pricing.modelId, change.pricing)
    ELSE modelsMap

getCurrentSnapshotStep(modelsMap, change) ==
    CASE change.changeType \in {"added", "updated"} ->
            MapSet(modelsMap, change.pricing.modelId, change.pricing)
      [] change.changeType = "removed" ->
            MapDelete(modelsMap, change.pricing.modelId)
      [] OTHER -> modelsMap

RECURSIVE ReplayChanges(_)
ReplayChanges(changes) ==
    IF changes = <<>> THEN <<>>
    ELSE getCurrentSnapshotStep(ReplayChanges(SubSeq(changes, 1, Len(changes) - 1)),
                                changes[Len(changes)])

getCurrentSnapshotAtClock(history) ==
    [provider |-> history.provider,
     date |-> now,
     models |-> MapValues(ReplayChanges(history.changes))]

\* lines 62-84
getCurrentSnapshot(history) ==
    [provider |-> history.provider,
     date |-> history.lastCrawled,
     models |-> MapValues(ReplayChanges(history.changes))]

\* a comparison of the two objects as they are, key by key
arePricingsEqualSameKeys(a, b) == a = b

arePricingsEqual(a, b) ==
    \A k \in ComparableKeys : Field(a, k) = Field(b, k)

\* the first loop with "updated" events that carry the new record only
detectAddedUpdatedNoPrevious(currentMap, newMap, date) ==
    LET ev(i) ==
            LET modelId == newMap[i][1]
                newPricing == newMap[i][2]
            IN IF ~MapHas(currentMap, modelId)
               THEN <<[date |-> date, changeType |-> "added", pricing |-> newPricing]>>
               ELSE IF ~arePricingsEqual(MapGet(currentMap, modelId), newPricing)
               THEN <<[date |-> date, changeType |-> "updated", pricing |-> newPricing]>>
               ELSE <<>>
        RECURSIVE upTo(_)
        upTo(n) == IF n = 0 THEN <<>> ELSE upTo(n - 1) \o ev(n)
    IN upTo(Len(newMap))

\* first loop of detectChanges: added and updated, in newMap order
detectAddedUpdated(currentMap, newMap, date) ==
    LET ev(i) ==
            LET modelId == newMap[i][1]
                newPricing == newMap[i][2]
                currentPricing == MapGet(currentMap, modelId)
            IN IF ~MapHas(currentMap, modelId)
               THEN <<[date |-> date, changeType |-> "added", pricing |-> newPricing]>>
               ELSE IF ~arePricingsEqual(currentPricing, newPricing)
               THEN <<[date |-> date, changeType |-> "updated", pricing |-> newPricing,
                       previousPricing |-> currentPricing]>>
               ELSE <<>>
        RECURSIVE upTo(_)
        upTo(n) == IF n = 0 THEN <<>> ELSE upTo(n - 1) \o ev(n)
    IN upTo(Len(newMap))

\* a second loop that finds nothing
detectRemovedNone(currentMap, newMap, date) == <<>>

\* second loop of detectChanges: removed, in currentMap order
detectRemoved(currentMap, newMap, date) ==
    LET ev(i) ==
            IF ~MapHas(newMap, currentMap[i][1])
            THEN <<[date |-> date, changeType |-> "removed", pricing |-> currentMap[i][2]]>>
            ELSE <<>>
        RECURSIVE upTo(_)
        upTo(n) == IF n = 0 THEN <<>> ELSE upTo(n - 1) \o ev(n)
    IN upTo(Len(currentMap))

\* the diff without its second loop
detectChangesNoRemoved(currentPrices, newPrices, date) ==
    detectAddedUpdated(MapOf(currentPrices), MapOf(newPrices), date)

\* a diff that pairs the two lists by position
detectChangesPositional(currentPrices, newPrices, date) ==
    LET ev(i) ==
            IF i > Len(currentPrices)
            THEN <<[date |-> date, changeType |-> "added", pricing |-> newPrices[i]]>>
            ELSE IF i > Len(newPrices)
            THEN <<[date |-> date, changeType |-> "removed",
                    pricing |-> currentPrices[i]]>>
            ELSE IF ~arePricingsEqual(currentPrices[i], newPrices[i])
            THEN <<[date |-> date, changeType |-> "updated", pricing |-> newPrices[i],
                    previousPricing |-> currentPrices[i]]>>
            ELSE <<>>
        RECURSIVE upTo(_)
        upTo(n) == IF n = 0 THEN <<>> ELSE upTo(n - 1) \o ev(n)
    IN upTo(IF Len(currentPrices) > Len(newPrices) THEN Len(currentPrices)
            ELSE Len(newPrices))

\* lines 103-146
detectChanges(currentPrices, newPrices, date) ==
    LET currentMap == MapOf(currentPrices)
        newMap == MapOf(newPrices)
    IN detectAddedUpdated(currentMap, newMap, date)
         \o detectRemoved(currentMap, newMap, date)

\* now.split('T')[0]: the day of a timestamp
DayOf(t) == t \div TicksPerDay

\* the entries taken last to first
firstCrawlChangesReversed(newPrices, today) ==
    [i \in DOMAIN newPrices |->
        [date |-> today, changeType |-> "added",
         pricing |-> newPrices[Len(newPrices) + 1 - i]]]

\* the events of a first crawl: every entry is "added" (lines 164-168)
firstCrawlChanges(newPrices, today) ==
    [i \in DOMAIN newPrices |->
        [date |-> today, changeType |-> "added", pricing |-> newPrices[i]]]

\* unshift instead of push
pushChangesInFront(historyChanges, changes) == changes \o historyChanges

\* history.changes.push(...changes) (lines 185-187)
pushChanges(historyChanges, changes) == historyChanges \o changes

\* the body of updateProviderPrices between its two awaits (lines 162-189)
\* file: what readProviderHistory resolved to; the result is the history object
\* handed to writeProviderHistory and the list the call will return
updateHistory(file, provider, pricingUrl, newPrices, at) ==
    LET today == DayOf(at)
    IN IF ~file.exists
       THEN LET changes == firstCrawlChanges(newPrices, today)
            IN [history |-> [provider |-> provider, lastCrawled |-> at,
                             pricingUrl |-> pricingUrl, changes |-> changes],
                changes |-> changes]
       ELSE LET currentSnapshot == getCurrentSnapshot(file)
                changes == detectChanges(currentSnapshot.models, newPrices, today)
            IN [history |-> [provider |-> file.provider, lastCrawled |-> at,
                             pricingUrl |-> file.pricingUrl,
                             changes |-> pushChanges(file.changes, changes)],
                changes |-> changes]

\* readProviderHistory: JSON.parse of the file, or null when it is missing
readProviderHistory(provider) == files[provider]

PersistedChanges(provider) ==
    IF files[provider].exists THEN files[provider].changes ELSE <<>>

IdleUpdate == [pc |-> "idle"]
NoOutcome == [status |-> "none"]
NoCall == [op |-> "none"]

\* updateProviderPrices is called: the clock is read, then the read is awaited
UpdateCall(t, provider, newPrices) ==
    /\ upd[t].pc = "idle"
    /\ ncalls < MaxCalls
    /\ ncalls' = ncalls + 1
    /\ upd' = [upd EXCEPT ![t] =
                 [pc |-> "read", provider |-> provider, pricingUrl |-> "url",
                  newPrices |-> newPrices, now |-> now]]
    /\ UNCHANGED <<now, files, ret, pureVars, clientVars>>

\* the read resolves; the diff is computed and the write is awaited
UpdateRead(t) ==
    /\ upd[t].pc = "read"
    /\ LET u == upd[t]
           r == updateHistory(readProviderHistory(u.provider), u.provider,
                              u.pricingUrl, u.newPrices, u.now)
       IN upd' = [upd EXCEPT ![t] =
                    [pc |-> "write", provider |-> u.provider,
                     newPrices |-> u.newPrices, history |-> r.history,
                     changes |-> r.changes]]
    /\ UNCHANGED <<now, files, ret, ncalls, pureVars, clientVars>>

\* what the caller of the latest finished call for a provider observed
Outcome(status, u) ==
    [status |-> status, newPrices |-> u.newPrices, changes |-> u.changes,
     before |-> PersistedChanges(u.provider),
     repeat |-> /\ ret[u.provider].status = "returned"
                /\ ret[u.provider].newPrices = u.newPrices]

\* writeProviderHistory resolves: the file is replaced, the changes returned
UpdateWrite(t) ==
    /\ upd[t].pc = "write"
    /\ LET u == upd[t]
       IN /\ files' = [files EXCEPT ![u.provider] = JSONHistory(u.history)]
          /\ ret' = [ret EXCEPT ![u.provider] = Outcome("returned", u)]
    /\ upd' = [upd EXCEPT ![t] = IdleUpdate]
    /\ UNCHANGED <<now, ncalls, pureVars, clientVars>>

UpdateWriteFailsMasked(t) ==
    /\ upd[t].pc = "write"
    /\ ret' = [ret EXCEPT ![upd[t].provider] = Outcome("returned", upd[t])]
    /\ upd' = [upd EXCEPT ![t] = IdleUpdate]
    /\ UNCHANGED <<now, files, ncalls, pureVars, clientVars>>

\* writeProviderHistory rejects: updateProviderPrices rejects with it
UpdateWriteFails(t) ==
    /\ upd[t].pc = "write"
    /\ ret' = [ret EXCEPT ![upd[t].provider] = Outcome("threw", upd[t])]
    /\ upd' = [upd EXCEPT ![t] = IdleUpdate]
    /\ UNCHANGED <<now, files, ncalls, pureVars, clientVars>>

\* time passes
Tick ==
    /\ now < MaxNow
    /\ now' = now + 1
    /\ UNCHANGED <<files, upd, ret, ncalls, pureVars, clientVars>>

-----------------------------------------------------------------------------
(* The pure functions of storage.ts, applied to arguments drawn at the start *)

PriceEvents ==
    {[date |-> d, changeType |-> "added", pricing |-> r] :
        d \in 0..1, r \in UNION {CrawlVariants(id) : id \in ModelIds}}
    \cup {[date |-> d, changeType |-> "removed", pricing |-> r] :
        d \in 0..1, r \in UNION {CrawlVariants(id) : id \in ModelIds}}
    \cup {[date |-> d, changeType |-> "updated", pricing |-> r,
           previousPricing |-> BasePricing(r.modelId)] :
        d \in 0..1, r \in UNION {CrawlVariants(id) : id \in ModelIds}}

DetectChangesCalls ==
    {[op |-> "detectChanges", currentPrices |-> c, newPrices |-> n, date |-> d] :
        c \in UniqueLists(PricingVariants), n \in UniqueLists(PricingVariants),
        d \in {1}}

GetCurrentSnapshotCalls ==
    {[op |-> "getCurrentSnapshot",
      history |-> [exists |-> TRUE, provider |-> "openai", lastCrawled |-> at,
                   pricingUrl |-> "url", changes |-> cs]] :
        at \in 0..1, cs \in UNION {[1..n -> PriceEvents] : n \in 0..MaxEvents}}

ApplyDetectChanges ==
    /\ fnIn.op = "detectChanges"
    /\ fnOut = NoCall
    /\ fnOut' = [op |-> "detectChanges",
                 changes |-> detectChanges(fnIn.currentPrices, fnIn.newPrices, fnIn.date)]
    /\ UNCHANGED <<now, ncalls, storeVars, clientVars, fnIn>>

ApplyGetCurrentSnapshot ==
    /\ fnIn.op = "getCurrentSnapshot"
    /\ fnOut = NoCall
    /\ fnOut' = [op |-> "getCurrentSnapshot", snapshot |-> getCurrentSnapshot(fnIn.history)]
    /\ UNCHANGED <<now, ncalls, storeVars, clientVars, fnIn>>

\* getCurrentSnapshot called on a history object, and later, with the clock and
\* the rest of the program's state as they are then, on the same object again
ReplayCalls == {c \in GetCurrentSnapshotCalls : Len(c.history.changes) <= MaxReplay}

ReplayFirst ==
    /\ fnIn.op = "getCurrentSnapshot"
    /\ fnOut = NoCall
    /\ fnOut' = [op |-> "first", at |-> now, snapshot |-> getCurrentSnapshot(fnIn.history)]
    /\ UNCHANGED <<now, ncalls, storeVars, clientVars, fnIn>>

ReplayAgain ==
    /\ fnOut # NoCall /\ fnOut.op = "first"
    /\ fnOut' = [op |-> "again", at |-> fnOut.at, snapshot |-> fnOut.snapshot,
                 files |-> files, again |-> getCurrentSnapshot(fnIn.history)]
    /\ UNCHANGED <<now, ncalls, storeVars, clientVars, fnIn>>

\* between the two calls the history file is rewritten by a crawl
ReplayCrawl ==
    /\ fnOut # NoCall /\ fnOut.op = "first"
    /\ ~files["openai"].exists
    /\ files' = [files EXCEPT !["openai"] =
                   JSONHistory(updateHistory(files["openai"], "openai", "url",
                                             <<BasePricing(1)>>, now).history)]
    /\ UNCHANGED <<now, ncalls, upd, ret, pureVars, clientVars>>

-----------------------------------------------------------------------------
(* client.ts: values *)

\* A provider id or a model id is the list of its "/"-separated parts:
\* <<"openrouter", "anthropic">> is "openrouter/anthropic".
NoModel == <<>>
NoEntry == [exists |-> FALSE]
NoError == [kind |-> "none"]
NoTokens == [given |-> FALSE]
IdleLookup == [pc |-> "idle"]
NoResult == [kind |-> "none"]

BuiltInProviders == {<<"openai">>, <<"anthropic">>, <<"google">>, <<"openrouter">>}

LookupProviders == {<<"openai">>, <<"openrouter">>}
LookupModels == {<<"gpt">>, <<"anthropic", "claude">>}
TokenCounts == [given |-> TRUE, inputTokens |-> 3, outputTokens |-> 2, cachedInputTokens |-> 1]

Request(op, provider, modelId, tokens) ==
    [op |-> op, provider |-> provider, modelId |-> modelId, tokens |-> tokens]

\* the calls a caller makes: three operations, both providers, model ids with
\* and without a "/"
LookupRequests ==
    {Request("getModelPricing", <<"openai">>, <<"gpt">>, NoTokens),
     Request("getModelPricing", <<"openrouter">>, <<"gpt">>, NoTokens),
     Request("getModelPricing", <<"openrouter">>, <<"anthropic", "claude">>, NoTokens),
     Request("calculateCost", <<"openai">>, <<"gpt">>, TokenCounts),
     Request("listModels", <<"openai">>, NoModel, NoTokens)}

isBuiltInProvider(provider) ==
    \/ provider \in BuiltInProviders
    \/ Len(provider) >= 2 /\ provider[1] = "openrouter"

\* no routing: the provider as given
EffectiveProviderUnrouted(provider, modelId) == provider

\* lines 228-232: openrouter and a model id with a "/" route to a sub-provider
EffectiveProvider(provider, modelId) ==
    IF provider = <<"openrouter">> /\ modelId # NoModel /\ Len(modelId) > 1
    THEN <<"openrouter", modelId[1]>>
    ELSE provider

CacheKeys ==
    {EffectiveProvider(p, m) : p \in LookupProviders, m \in LookupModels \cup {NoModel}}

\* getUtcDate(this.timeOffsetMs)
getToday == DayOf(now + cfg.timeOffsetMs)

\* new Date(date + 'T00:00:00Z').getTime()
DateMs(date) == date * TicksPerDay

daysDifference(dateA, dateB) == (DateMs(dateA) - DateMs(dateB)) \div TicksPerDay

\* what the server holds for <baseUrl>/<effective provider>.json
RemoteModels(k) ==
    CASE k = <<"openai">> -> (<<"gpt">> :> [input |-> 2, output |-> 4, cached |-> 1]
                              @@ <<"mini">> :> [input |-> 1, output |-> 2])
      [] k = <<"openrouter">> -> (<<"gpt">> :> [input |-> 3, output |-> 5])
      [] k = <<"openrouter", "openai">> ->
             (<<"openai", "gpt">> :> [input |-> 2, output |-> 4])
      [] OTHER -> (<<"anthropic", "claude">> :> [input |-> 6, output |-> 8])

\* what the server's file keeps as the snapshot of the day before: the price
\* "gpt" had then, and a model that has been removed since
PreviousModels(k) ==
    [m \in DOMAIN RemoteModels(k) \cup {<<"old">>} |->
       IF m = <<"gpt">> THEN [input |-> 1, output |-> 1]
       ELSE IF m = <<"old">> THEN [input |-> 8, output |-> 8]
       ELSE RemoteModels(k)[m]]

DeprecationInfo == [since |-> 0, dataFrozenAt |-> 0, message |-> "deprecated"]

RemoteFile(k) ==
    LET file == [current |-> [date |-> published, models |-> RemoteModels(k)],
                 previous |-> [date |-> published - 1, models |-> PreviousModels(k)]]
    IN IF endpointDeprecated THEN With(file, "deprecated", DeprecationInfo) ELSE file

DefaultOptions ==
    [offline |-> FALSE, externalCache |-> FALSE, customProviders |-> <<>>,
     onDeprecation |-> TRUE, suppressDeprecationWarnings |-> FALSE, timeOffsetMs |-> 0]

-----------------------------------------------------------------------------
(* client.ts: CostClient *)

Min(a, b) == IF a < b THEN a ELSE b

DeprecationDueAgain(data, provider) == "deprecated" \in DOMAIN data

\* handleDeprecation signals for this file and provider (lines 166-167)
DeprecationDue(data, provider) == "deprecated" \in DOMAIN data /\ provider \notin shown

\* suppressDeprecationWarnings silences the callback too
handleDeprecationSuppressed(data, provider) ==
    IF DeprecationDue(data, provider)
    THEN /\ shown' = shown \cup {provider}
         /\ signals' =
              IF cfg.suppressDeprecationWarnings THEN signals
              ELSE IF cfg.onDeprecation
              THEN [signals EXCEPT ![provider].callback = Min(@ + 1, SignalCap)]
              ELSE [signals EXCEPT ![provider].warn = Min(@ + 1, SignalCap)]
    ELSE UNCHANGED <<shown, signals>>

\* lines 165-185; the counters stop at SignalCap
handleDeprecation(data, provider) ==
    IF DeprecationDue(data, provider)
    THEN /\ shown' = shown \cup {provider}
         /\ signals' =
              IF cfg.onDeprecation
              THEN [signals EXCEPT ![provider].callback = Min(@ + 1, SignalCap)]
              ELSE IF ~cfg.suppressDeprecationWarnings
              THEN [signals EXCEPT ![provider].warn = Min(@ + 1, SignalCap)]
              ELSE signals
    ELSE UNCHANGED <<shown, signals>>

\* The options object is a plain object: a property read finds its own keys
\* and the keys it inherits from Object.prototype ("constructor" stands for
\* them: "toString", "valueOf", "hasOwnProperty" behave alike).
InheritedKeys == {<<"constructor">>}

\* what such a read gives: a function, which has no own enumerable keys
InheritedValue == <<>>

\* this.customProviders[provider] is truthy (lines 191-192, 206-207)
hasCustomModels(provider) ==
    provider \in DOMAIN cfg.customProviders \/ provider \in InheritedKeys

\* this.customProviders[provider]
customModelsOf(provider) ==
    IF provider \in DOMAIN cfg.customProviders THEN cfg.customProviders[provider]
    ELSE InheritedValue

\* a file dated by the wall clock, whatever timeOffsetMs says
getCustomProviderFileClockDay(provider) ==
    IF ~hasCustomModels(provider) THEN NoEntry
    ELSE [current |-> [date |-> DayOf(now), models |-> customModelsOf(provider)]]

\* lines 190-200
getCustomProviderFile(provider) ==
    IF ~hasCustomModels(provider) THEN NoEntry
    ELSE [current |-> [date |-> getToday, models |-> customModelsOf(provider)]]

mergeCustomDataFieldwise(file, provider) ==
    IF ~hasCustomModels(provider) THEN file
    ELSE LET customModels == customModelsOf(provider)
             models == file.current.models
         IN [file EXCEPT !.current.models =
               [m \in DOMAIN models \cup DOMAIN customModels |->
                  IF m \notin DOMAIN customModels THEN models[m]
                  ELSE IF m \notin DOMAIN models THEN customModels[m]
                  ELSE customModels[m] @@ models[m]]]

\* the merged current snapshot alone, without the rest of the file
mergeCustomDataCurrentOnly(file, provider) ==
    IF ~hasCustomModels(provider) THEN file
    ELSE LET customModels == customModelsOf(provider)
             models == file.current.models
         IN [current |->
               [date |-> file.current.date,
                models |-> [m \in DOMAIN models \cup DOMAIN customModels |->
                              IF m \in DOMAIN customModels THEN customModels[m]
                              ELSE models[m]]]]

\* lines 205-219: { ...file.current.models, ...customModels }
mergeCustomData(file, provider) ==
    IF ~hasCustomModels(provider) THEN file
    ELSE LET customModels == customModelsOf(provider)
             models == file.current.models
         IN [file EXCEPT !.current.models =
               [m \in DOMAIN models \cup DOMAIN customModels |->
                  IF m \in DOMAIN customModels THEN customModels[m] ELSE models[m]]]

getEffectiveDataPrevious(file) ==
    IF "previous" \in DOMAIN file THEN file.previous ELSE file.current

\* lines 321-325
getEffectiveData(file) == file.current

\* the locals of fetchProvider when it is entered (lines 228-236)
EnterLookup(op, provider, modelId, tokens) ==
    [pc |-> "start", op |-> op, provider |-> provider, modelId |-> modelId,
     tokens |-> tokens, eff |-> EffectiveProvider(provider, modelId),
     today |-> getToday, cached |-> NoEntry, file |-> NoEntry, err |-> NoError,
     fetched |-> 0, response |-> "none", source |-> "none", dataDate |-> Undefined,
     external |-> "none", saved |-> "none"]

\* fetchProvider throws
Throw(t, l, err) ==
    /\ lk' = [lk EXCEPT ![t] = [l EXCEPT !.pc = "rejected", !.err = err]]
    /\ UNCHANGED <<shown, signals, fetchedToday, marked>>

\* fetchProvider returns a file made from the custom data (lines 240-243, 251-254)
ReturnCustom(t, l, file) ==
    /\ lk' = [lk EXCEPT ![t] = [l EXCEPT !.pc = "resolved", !.file = file,
                                         !.source = "custom"]]
    /\ UNCHANGED <<shown, signals, fetchedToday, marked>>

\* handleDeprecation, then return mergeCustomData (lines 277-278, 288-289, 313-315)
Serve(t, l, data, source) ==
    /\ handleDeprecation(data, l.eff)
    /\ marked' = IF "deprecated" \in DOMAIN data THEN marked \cup {l.eff} ELSE marked
    /\ lk' = [lk EXCEPT ![t] = [l EXCEPT !.pc = "resolved",
                                         !.file = mergeCustomData(data, l.provider),
                                         !.source = source]]
    /\ UNCHANGED fetchedToday

\* await this.fetchFn(url) (lines 282-283)
IssueFetch(t, l) ==
    /\ lk' = [lk EXCEPT ![t] = [l EXCEPT !.pc = "fetch", !.fetched = 1]]
    /\ fetchedToday' = fetchedToday \cup {l.eff}
    /\ UNCHANGED <<shown, signals, marked>>

cacheIsFreshByDataDate(cached, today) ==
    cached # NoEntry /\ cached.data.current.date = today

\* an entry of any day counts
cacheIsFreshAnyDay(cached, today) == cached # NoEntry

\* the cache entry decides: serve it, or fetch (lines 275-283)
cacheIsFresh(cached, today) == cached # NoEntry /\ cached.fetchedDate = today

AfterCacheLookup(t, l) ==
    IF cacheIsFresh(l.cached, l.today)
    THEN Serve(t, l, l.cached.data, "cache")
    ELSE IssueFetch(t, l)

ProviderNotFound == [kind |-> "ProviderNotFound", class |-> "Error"]
FetchFailed == [kind |-> "FetchFailed", class |-> "Error"]
TransportError == [kind |-> "TransportError", class |-> "TypeError"]

\* new Error(`Model '...' not found ...`) (lines 342-344)
ModelNotFound == [kind |-> "ModelNotFound", class |-> "Error"]

\* new Error(`Model '...' does not have token-based pricing. ...`) (lines 413-416)
UnsupportedPricingModel == [kind |-> "UnsupportedPricingModel", class |-> "Error"]

\* new ClockMismatchError(today, data.current.date, daysDiff) (lines 48-61)
ClockMismatch(clientDate, dataDate, daysDiff) ==
    [kind |-> "ClockMismatch", class |-> "ClockMismatchError",
     clientDate |-> clientDate, dataDate |-> dataDate, daysDiff |-> daysDiff]

\* only the custom data is consulted: offline mode (line 239) or a provider
\* that is not built in (line 250)
customOnly(l) == cfg.offline \/ ~isBuiltInProvider(l.eff)

\* a public operation that resolves a provider is called: fetchProvider runs
\* up to its first await (lines 226-283)
LookupCall(t, request) ==
    /\ lk[t].pc = "idle"
    /\ ncalls < MaxCalls
    /\ ncalls' = ncalls + 1
    /\ LET l == EnterLookup(request.op, request.provider, request.modelId,
                             request.tokens)
       IN IF customOnly(l)
          THEN IF getCustomProviderFile(l.provider) # NoEntry
               THEN ReturnCustom(t, l, getCustomProviderFile(l.provider))
               ELSE Throw(t, l, ProviderNotFound)
          ELSE IF cache[l.eff] = NoEntry /\ cfg.externalCache
               THEN /\ lk' = [lk EXCEPT ![t] = [l EXCEPT !.pc = "externalGet"]]
                    /\ UNCHANGED <<shown, signals, fetchedToday, marked>>
               ELSE AfterCacheLookup(t, [l EXCEPT !.cached = cache[l.eff]])
    /\ res' = NoResult
    /\ UNCHANGED <<now, cfg, cache, external, published, endpointDeprecated,
                   served, storeVars, pureVars>>

clockMismatchAnyDifference(daysDiff) == daysDiff # 0

\* only data from the future is refused
clockMismatchFutureOnly(daysDiff) == daysDiff < 0

\* the check of the fetched date against the client's day (lines 295-305)
clockMismatch(daysDiff) == daysDiff < 0 \/ daysDiff > 1

cacheEntryDataDate(data, today) == [data |-> data, fetchedDate |-> data.current.date]

\* const entry: CacheEntry = { data, fetchedDate: today } (line 308)
cacheEntry(data, today) == [data |-> data, fetchedDate |-> today]

storeFetchedForAll(provider, entry) == [k \in CacheKeys |-> entry]

\* this.cache.set(effectiveProvider, entry) (line 309)
storeFetched(provider, entry) == [cache EXCEPT ![provider] = entry]

\* the fetch settles and fetchProvider runs on (lines 283-315)
FetchSettles(t, response) ==
    /\ lk[t].pc = "fetch"
    /\ LET l == [lk[t] EXCEPT !.response = response]
           data == RemoteFile(l.eff)
           daysDiff == daysDifference(l.today, data.current.date)
           seen == [l EXCEPT !.dataDate = data.current.date]
       IN CASE response = "rejects" ->
                 /\ Throw(t, l, TransportError)
                 /\ UNCHANGED <<cache, served>>
            [] response = "notOk" ->
                 /\ IF l.cached # NoEntry
                    THEN Serve(t, l, l.cached.data, "fallback")
                    ELSE Throw(t, l, FetchFailed)
                 /\ UNCHANGED <<cache, served>>
            [] response = "ok" ->
                 IF clockMismatch(daysDiff)
                 THEN /\ Throw(t, seen,
                               ClockMismatch(l.today, data.current.date, daysDiff))
                      /\ UNCHANGED <<cache, served>>
                 ELSE /\ cache' = storeFetched(l.eff, cacheEntry(data, l.today))
                      /\ served' = [served EXCEPT ![l.eff] = l.today]
                      /\ IF cfg.externalCache
                         THEN /\ lk' = [lk EXCEPT ![t] =
                                          [seen EXCEPT !.pc = "externalSet", !.file = data]]
                              /\ UNCHANGED <<shown, signals, fetchedToday, marked>>
                         ELSE Serve(t, seen, data, "fetch")
    /\ res' = NoResult
    /\ UNCHANGED <<now, ncalls, cfg, external, published, endpointDeprecated,
                   storeVars, pureVars>>

\* JSON.stringify(entry), as externalCache.set stores it
StoredEntry(entry) == [json |-> entry]

\* a stored string that JSON.parse rejects
Garbage == [garbage |-> TRUE]

\* loadFromExternalCache (lines 134-146): the entry, or null when get throws,
\* gives nothing, or gives what cannot be parsed
loadFromExternalCache(provider, outcome) ==
    LET raw == external[provider]
    IN IF outcome = "throws" \/ raw = NoEntry \/ raw = Garbage THEN NoEntry
       ELSE raw.json

\* what the lookup saw of the external cache
externalSeen(provider, outcome) ==
    IF outcome = "throws" THEN "threw"
    ELSE IF external[provider] = NoEntry THEN "miss"
    ELSE IF external[provider] = Garbage THEN "garbage"
    ELSE "hit"

populateNothing(provider, entry) == cache

\* this.cache.set(effectiveProvider, external) (line 270)
populateFromExternal(provider, entry) == [cache EXCEPT ![provider] = entry]

\* externalCache.get settles and fetchProvider runs on (lines 266-283)
ExternalGetSettles(t, outcome) ==
    /\ lk[t].pc = "externalGet"
    /\ LET l == [lk[t] EXCEPT !.external = externalSeen(lk[t].eff, outcome)]
           loaded == loadFromExternalCache(l.eff, outcome)
       IN IF loaded # NoEntry
          THEN /\ cache' = populateFromExternal(l.eff, loaded)
               /\ AfterCacheLookup(t, [l EXCEPT !.cached = loaded])
          ELSE /\ cache' = cache
               /\ AfterCacheLookup(t, l)
    /\ res' = NoResult
    /\ UNCHANGED <<now, ncalls, cfg, external, published, endpointDeprecated,
                   served, storeVars, pureVars>>

ExternalSetSettlesPropagates(t, outcome) ==
    /\ lk[t].pc = "externalSet"
    /\ LET l == [lk[t] EXCEPT !.saved = outcome]
       IN /\ external' = IF outcome = "stored"
                         THEN [external EXCEPT ![l.eff] =
                                 StoredEntry(cacheEntry(l.file, l.today))]
                         ELSE external
          /\ IF outcome = "stored" THEN Serve(t, l, l.file, "fetch")
             ELSE Throw(t, l, TransportError)
    /\ res' = NoResult
    /\ UNCHANGED <<now, ncalls, cfg, cache, published, endpointDeprecated,
                   served, storeVars, pureVars>>

\* externalCache.set settles (saveToExternalCache, lines 151-159) and
\* fetchProvider runs on to its return (lines 310-315)
ExternalSetSettles(t, outcome) ==
    /\ lk[t].pc = "externalSet"
    /\ LET l == [lk[t] EXCEPT !.saved = outcome]
       IN /\ external' = IF outcome = "stored"
                         THEN [external EXCEPT ![l.eff] =
                                 StoredEntry(cacheEntry(l.file, l.today))]
                         ELSE external
          /\ Serve(t, l, l.file, "fetch")
    /\ res' = NoResult
    /\ UNCHANGED <<now, ncalls, cfg, cache, published, endpointDeprecated,
                   served, storeVars, pureVars>>

-----------------------------------------------------------------------------
(* JavaScript numbers.  A number is m * 2^e with a mantissa m of MantissaBits *)
(* bits (a double keeps 53) and any exponent; every operation gives the      *)
(* number nearest to the exact result, a tie going to the even mantissa.     *)
(* Token counts and prices are integers that such a number holds exactly.    *)

Zero == [m |-> 0, e |-> 0]

RECURSIVE RoundQuotient(_, _, _)
\* the number nearest to (n / d) * 2^e, for integers n >= 0 and d > 0
RoundQuotient(n, d, e) ==
    IF n = 0 THEN Zero
    ELSE IF n < 2^(MantissaBits - 1) * d THEN RoundQuotient(2 * n, d, e - 1)
    ELSE IF n >= 2^MantissaBits * d THEN RoundQuotient(n, 2 * d, e + 1)
    ELSE LET q == n \div d
             r == n % d
             m == IF 2 * r > d \/ (2 * r = d /\ q % 2 = 1) THEN q + 1 ELSE q
         IN IF m = 2^MantissaBits
            THEN [m |-> 2^(MantissaBits - 1), e |-> e + 1]
            ELSE [m |-> m, e |-> e]

\* the same for an integer n of either sign
Nearest(n, d, e) ==
    IF n < 0 THEN [RoundQuotient(-n, d, e) EXCEPT !.m = -@] ELSE RoundQuotient(n, d, e)

\* a / b for integers a and b > 0
Quotient(a, b) == Nearest(a, b, 0)

\* x * p for a number x and an integer p
Times(x, p) == Nearest(x.m * p, 1, x.e)

\* x + y
Plus(x, y) ==
    IF x.m = 0 THEN y
    ELSE IF y.m = 0 THEN x
    ELSE LET e == Min(x.e, y.e)
         IN Nearest(x.m * 2^(x.e - e) + y.m * 2^(y.e - e), 1, e)

PerMillion == 1000000

\* pricing.input === undefined || pricing.output === undefined negated (line 412)
hasTokenPricingTruthy(pricing) ==
    Field(pricing, "input") \notin {Undefined, 0} /\ Field(pricing, "output") \notin {Undefined, 0}

\* the record has token prices: the test of line 412 fails
hasTokenPricing(pricing) ==
    Field(pricing, "input") # Undefined /\ Field(pricing, "output") # Undefined

\* an arithmetic that charges cached tokens only when the record has a cached price
costOfCachedOnly(pricing, tokens) ==
    LET inputTokens == tokens.inputTokens
        outputTokens == tokens.outputTokens
        cachedInputTokens == IF Field(tokens, "cachedInputTokens") = Undefined THEN 0
                             ELSE tokens.cachedInputTokens
        regularInputTokens == inputTokens - cachedInputTokens
        usedCachedPricing ==
            cachedInputTokens > 0 /\ Field(pricing, "cached") # Undefined
        inputCost ==
            Plus(Times(Quotient(regularInputTokens, PerMillion), pricing.input),
                 IF usedCachedPricing
                 THEN Times(Quotient(cachedInputTokens, PerMillion), pricing.cached)
                 ELSE Zero)
        outputCost == Times(Quotient(outputTokens, PerMillion), pricing.output)
    IN [inputCost |-> inputCost, outputCost |-> outputCost,
        totalCost |-> Plus(inputCost, outputCost),
        usedCachedPricing |-> usedCachedPricing]

\* calculateCost's arithmetic (lines 419-443)
costOf(pricing, tokens) ==
    LET inputTokens == tokens.inputTokens
        outputTokens == tokens.outputTokens
        cachedInputTokens == IF Field(tokens, "cachedInputTokens") = Undefined THEN 0
                             ELSE tokens.cachedInputTokens
        regularInputTokens == inputTokens - cachedInputTokens
        usedCachedPricing ==
            cachedInputTokens > 0 /\ Field(pricing, "cached") # Undefined
        inputCost ==
            Plus(Times(Quotient(regularInputTokens, PerMillion), pricing.input),
                 IF usedCachedPricing
                 THEN Times(Quotient(cachedInputTokens, PerMillion), pricing.cached)
                 ELSE Times(Quotient(cachedInputTokens, PerMillion), pricing.input))
        outputCost == Times(Quotient(outputTokens, PerMillion), pricing.output)
    IN [inputCost |-> inputCost, outputCost |-> outputCost,
        totalCost |-> Plus(inputCost, outputCost),
        usedCachedPricing |-> usedCachedPricing]

\* calculateCost once getModelPricing has given the record (lines 411-443)
calculateCostFrom(pricing, tokens) ==
    IF ~hasTokenPricing(pricing)
    THEN UnsupportedPricingModel
    ELSE [kind |-> "ok", cost |-> costOf(pricing, tokens)]

isStaleOrSameDay(dataDate, today) == dataDate <= today

\* lines 348-349 of getModelPricing
isStale(dataDate, today) == dataDate < today

\* what the caller of fetchProvider makes of its outcome (lines 335-450)
resultOf(l) ==
    LET ghost == [op |-> l.op, provider |-> l.provider, modelId |-> l.modelId,
                  eff |-> l.eff, today |-> l.today, returnDay |-> getToday,
                  fetched |-> l.fetched, response |-> l.response,
                  source |-> l.source, hadCache |-> l.cached # NoEntry,
                  resolved |-> l.pc = "resolved", err |-> l.err,
                  found |-> /\ l.pc = "resolved"
                            /\ l.modelId \in DOMAIN l.file.current.models]
        data == getEffectiveData(l.file)
        found == l.modelId \in DOMAIN data.models
        pricing == data.models[l.modelId]
        stale == isStale(data.date, getToday)
    IN IF l.pc = "rejected"
       THEN IF l.op = "getModelPricingOrNull"
            THEN [kind |-> "null", ghost |-> ghost]
            ELSE [kind |-> l.err.kind, class |-> l.err.class, ghost |-> ghost]
       ELSE CASE l.op = "listModels" ->
                   [kind |-> "ok", models |-> DOMAIN data.models, ghost |-> ghost]
              [] l.op = "getRawProviderData" ->
                   [kind |-> "ok", file |-> l.file, ghost |-> ghost]
              [] l.op = "getModelPricing" ->
                   IF ~found
                   THEN [kind |-> ModelNotFound.kind, class |-> ModelNotFound.class,
                         available |-> DOMAIN data.models, ghost |-> ghost]
                   ELSE [kind |-> "ok", pricing |-> pricing, date |-> data.date,
                         stale |-> stale, ghost |-> ghost]
              [] l.op = "getModelPricingOrNull" ->
                   IF ~found
                   THEN [kind |-> "null", ghost |-> ghost]
                   ELSE [kind |-> "ok", pricing |-> pricing, date |-> data.date,
                         stale |-> stale, ghost |-> ghost]
              [] l.op = "calculateCost" ->
                   IF ~found
                   THEN [kind |-> ModelNotFound.kind, class |-> ModelNotFound.class,
                         available |-> DOMAIN data.models, ghost |-> ghost]
                   ELSE IF calculateCostFrom(pricing, l.tokens).kind # "ok"
                   THEN [kind |-> calculateCostFrom(pricing, l.tokens).kind,
                         class |-> calculateCostFrom(pricing, l.tokens).class,
                         ghost |-> ghost]
                   ELSE [kind |-> "ok", cost |-> calculateCostFrom(pricing, l.tokens).cost,
                         date |-> data.date, stale |-> stale, ghost |-> ghost]

\* the awaiting operation runs on and hands its caller a result or an error
LookupReturn(t) ==
    /\ lk[t].pc \in {"resolved", "rejected"}
    /\ res' = resultOf(lk[t])
    /\ lk' = [lk EXCEPT ![t] = IdleLookup]
    /\ UNCHANGED <<now, ncalls, cfg, cache, external, shown, published,
                   endpointDeprecated, fetchedToday, signals, served, marked,
                   storeVars, pureVars>>

\* this.cache.clear(), whatever the argument
clearedAll(provider) == [k \in DOMAIN cache |-> NoEntry]

\* this.cache.delete(provider) (line 465)
cleared(provider) == [cache EXCEPT ![provider] = NoEntry]

\* clearCache(provider) (lines 464-466)
ClearCache(provider) ==
    /\ cache[provider] # NoEntry
    /\ cache' = cleared(provider)
    /\ served' = [served EXCEPT ![provider] = Undefined]
    /\ fetchedToday' = fetchedToday \ {provider}
    /\ res' = NoResult
    /\ UNCHANGED <<now, ncalls, cfg, external, shown, published, endpointDeprecated,
                   lk, signals, marked, storeVars, pureVars>>

\* clearCache() (lines 467-469)
ClearCacheAll ==
    /\ \E k \in CacheKeys : cache[k] # NoEntry
    /\ cache' = [k \in CacheKeys |-> NoEntry]
    /\ served' = [k \in CacheKeys |-> Undefined]
    /\ fetchedToday' = {}
    /\ res' = NoResult
    /\ UNCHANGED <<now, ncalls, cfg, external, shown, published, endpointDeprecated,
                   lk, signals, marked, storeVars, pureVars>>

\* the client's clock passes midnight
Midnight ==
    /\ DayOf(now) < MaxDays
    /\ now' = (DayOf(now) + 1) * TicksPerDay
    /\ fetchedToday' = {}
    /\ res' = NoResult
    /\ UNCHANGED <<ncalls, cfg, cache, external, shown, published, endpointDeprecated,
                   lk, signals, served, marked, storeVars, pureVars>>

\* the publisher writes the next day's data
Publish ==
    /\ published < MaxPublished
    /\ published' = published + 1
    /\ res' = NoResult
    /\ UNCHANGED <<now, ncalls, cfg, cache, external, shown, endpointDeprecated,
                   lk, fetchedToday, signals, served, marked, storeVars, pureVars>>

\* the publisher starts to mark its files as deprecated
DeprecateEndpoint ==
    /\ ~endpointDeprecated
    /\ endpointDeprecated' = TRUE
    /\ res' = NoResult
    /\ UNCHANGED <<now, ncalls, cfg, cache, external, shown, published,
                   lk, fetchedToday, signals, served, marked, storeVars, pureVars>>

-----------------------------------------------------------------------------
vars == <<now, ncalls, storeVars, pureVars, clientVars>>

StoreStart ==
    /\ now = 0
    /\ files = [p \in StoreProviders |-> NoFile]
    /\ upd = [t \in Tasks |-> IdleUpdate]
    /\ ret = [p \in StoreProviders |-> NoOutcome]
    /\ ncalls = 0

PureIdle ==
    /\ fnIn = NoCall
    /\ fnOut = NoCall

\* a client as its constructor leaves it (lines 90-107), and what the store
\* behind its external cache holds at that time
ClientStartFrom(options, stored) ==
    /\ cfg \in options
    /\ cache = [k \in CacheKeys |-> NoEntry]
    /\ external \in stored
    /\ shown = {}
    /\ published = 0
    /\ endpointDeprecated = FALSE
    /\ lk = [t \in Tasks |-> IdleLookup]
    /\ res = NoResult
    /\ fetchedToday = {}
    /\ signals = [k \in CacheKeys |-> [callback |-> 0, warn |-> 0]]
    /\ served = [k \in CacheKeys |-> Undefined]
    /\ marked = {}

\* a client as its constructor leaves it, nothing stored outside it
ClientStart(options) == ClientStartFrom(options, {[k \in CacheKeys |-> NoEntry]})

Init == StoreStart /\ PureIdle /\ ClientStart({DefaultOptions})

\* one crawl at a time: the crawlers run their updates one after another
Next ==
    \/ \E t \in Tasks, p \in StoreProviders, l \in UniqueLists(CrawlVariants) :
          /\ \A u \in Tasks : upd[u].pc = "idle"
          /\ UpdateCall(t, p, l)
    \/ \E t \in Tasks : UpdateRead(t)
    \/ \E t \in Tasks : UpdateWrite(t)
    \/ Tick

Spec == Init /\ [][Next]_vars

\* updateProviderPrices called again while an earlier call is at an await
ConcurrentStoreNext ==
    \/ \E t \in Tasks, p \in StoreProviders, l \in UniqueLists(CrawlVariants) :
          UpdateCall(t, p, l)
    \/ \E t \in Tasks : UpdateRead(t)
    \/ \E t \in Tasks : UpdateWrite(t)
    \/ Tick

ConcurrentStoreSpec == Init /\ [][ConcurrentStoreNext]_vars

\* calls one after another, on a store whose writes can fail
FailingStoreNext ==
    \/ \E t \in Tasks, p \in StoreProviders, l \in UniqueLists(CrawlVariants) :
          /\ \A u \in Tasks : upd[u].pc = "idle"
          /\ UpdateCall(t, p, l)
    \/ \E t \in Tasks : UpdateRead(t)
    \/ \E t \in Tasks : UpdateWrite(t)
    \/ \E t \in Tasks : UpdateWriteFails(t)
    \/ Tick

FailingStoreSpec == Init /\ [][FailingStoreNext]_vars

PureInit ==
    /\ StoreStart
    /\ ClientStart({DefaultOptions})
    /\ fnIn \in DetectChangesCalls \cup GetCurrentSnapshotCalls
    /\ fnOut = NoCall

PureNext ==
    \/ ApplyDetectChanges
    \/ ApplyGetCurrentSnapshot

PureSpec == PureInit /\ [][PureNext]_vars

ReplayInit ==
    /\ StoreStart
    /\ ClientStart({DefaultOptions})
    /\ fnIn \in ReplayCalls
    /\ fnOut = NoCall

ReplayNext == ReplayFirst \/ ReplayAgain \/ ReplayCrawl \/ Tick

ReplaySpec == ReplayInit /\ [][ReplayNext]_vars

\* an online client without an external cache and without custom providers
ClientOptions == {DefaultOptions}

ClientInit == StoreStart /\ PureIdle /\ ClientStart(ClientOptions)

Caller == CHOOSE t \in Tasks : TRUE

AllIdle == \A u \in Tasks : lk[u].pc = "idle"

\* one operation at a time: each is awaited before the next is called. The
\* client sees the server only when a fetch settles, so the server's steps
\* are taken between operations.
ClientNext ==
    \/ \E request \in LookupRequests : AllIdle /\ LookupCall(Caller, request)
    \/ \E response \in {"ok", "notOk", "rejects"} : FetchSettles(Caller, response)
    \/ LookupReturn(Caller)
    \/ \E k \in CacheKeys : AllIdle /\ ClearCache(k)
    \/ AllIdle /\ ClearCacheAll
    \/ Midnight
    \/ AllIdle /\ Publish
    \/ AllIdle /\ DeprecateEndpoint

ClientSpec == ClientInit /\ [][ClientNext]_vars

\* customProviders: an overlay for the built-in openai (one id the server
\* lists too, with fewer fields, and one it does not list), and a provider of
\* the caller's own
OverlayModels ==
    <<"gpt">> :> [input |-> 9, output |-> 9] @@ <<"mine">> :> [input |-> 7, output |-> 7]

OwnModels == <<"mine">> :> [input |-> 5, output |-> 5]

CustomProviders == <<"openai">> :> OverlayModels @@ <<"mycorp">> :> OwnModels

CustomOptions == {[DefaultOptions EXCEPT !.customProviders = CustomProviders]}

\* calls for the overlaid provider, the caller's own provider and a provider
\* nobody defined; model ids that exist remotely, in the overlay, or nowhere
CustomRequests ==
    {Request("getModelPricing", <<"openai">>, <<"gpt">>, NoTokens),
     Request("getModelPricing", <<"openai">>, <<"missing">>, NoTokens),
     Request("getModelPricing", <<"mycorp">>, <<"mine">>, NoTokens),
     Request("getModelPricingOrNull", <<"openai">>, <<"mini">>, NoTokens),
     Request("getModelPricingOrNull", <<"openai">>, <<"missing">>, NoTokens),
     Request("getModelPricingOrNull", <<"nobody">>, <<"gpt">>, NoTokens)}

CustomInit == StoreStart /\ PureIdle /\ ClientStart(CustomOptions)

CustomNext ==
    \/ \E request \in CustomRequests : AllIdle /\ LookupCall(Caller, request)
    \/ \E response \in {"ok", "notOk", "rejects"} : FetchSettles(Caller, response)
    \/ LookupReturn(Caller)
    \/ Midnight

CustomSpec == CustomInit /\ [][CustomNext]_vars

\* an offline client with custom providers and an external cache whose store
\* holds an entry for openai, fetched on the first day
OfflineOptions ==
    {[DefaultOptions EXCEPT !.offline = TRUE, !.externalCache = TRUE,
                            !.customProviders = CustomProviders]}

OfflineStored ==
    {[k \in CacheKeys |->
        IF k = <<"openai">>
        THEN StoredEntry([data |-> [current |-> [date |-> 0, models |-> RemoteModels(k)]],
                          fetchedDate |-> 0])
        ELSE NoEntry]}

OfflineRequests ==
    {Request("getModelPricing", <<"openai">>, <<"gpt">>, NoTokens),
     Request("getModelPricing", <<"openai">>, <<"mini">>, NoTokens),
     Request("listModels", <<"openai">>, NoModel, NoTokens),
     Request("listModels", <<"mycorp">>, NoModel, NoTokens),
     Request("getModelPricing", <<"openrouter">>, <<"gpt">>, NoTokens),
     Request("getModelPricing", <<"openrouter">>, <<"anthropic", "claude">>, NoTokens),
     Request("calculateCost", <<"mycorp">>, <<"mine">>, TokenCounts),
     Request("listModels", <<"nobody">>, NoModel, NoTokens),
     Request("listModels", <<"constructor">>, NoModel, NoTokens)}

OfflineInit == StoreStart /\ PureIdle /\ ClientStartFrom(OfflineOptions, OfflineStored)

OfflineNext ==
    \/ \E request \in OfflineRequests : AllIdle /\ LookupCall(Caller, request)
    \/ LookupReturn(Caller)
    \/ Midnight

OfflineSpec == OfflineInit /\ [][OfflineNext]_vars

\* an online client with an external cache; the store behind it is empty, or
\* holds for openai an entry an earlier client fetched on the first day, or
\* holds for it something that is no JSON
ExternalOptions == {[DefaultOptions EXCEPT !.externalCache = TRUE]}

ExternalStored ==
    OfflineStored
    \cup {[k \in CacheKeys |-> NoEntry]}
    \cup {[k \in CacheKeys |-> IF k = <<"openai">> THEN Garbage ELSE NoEntry]}

ExternalRequests ==
    {Request("getModelPricing", <<"openai">>, <<"gpt">>, NoTokens),
     Request("listModels", <<"openai">>, NoModel, NoTokens),
     Request("getModelPricing", <<"openrouter">>, <<"gpt">>, NoTokens)}

ExternalInit == StoreStart /\ PureIdle /\ ClientStartFrom(ExternalOptions, ExternalStored)

ExternalNext ==
    \/ \E request \in ExternalRequests : AllIdle /\ LookupCall(Caller, request)
    \/ \E outcome \in {"value", "throws"} : ExternalGetSettles(Caller, outcome)
    \/ \E response \in {"ok", "notOk", "rejects"} : FetchSettles(Caller, response)
    \/ \E outcome \in {"stored", "throws"} : ExternalSetSettles(Caller, outcome)
    \/ LookupReturn(Caller)
    \/ AllIdle /\ ClearCacheAll
    \/ Midnight

ExternalSpec == ExternalInit /\ [][ExternalNext]_vars

\* calls that are not awaited one by one: a second operation is called while
\* the first is at an await
ConcurrentRequests ==
    {Request("getModelPricing", <<"openai">>, <<"gpt">>, NoTokens),
     Request("listModels", <<"openai">>, NoModel, NoTokens),
     Request("getModelPricing", <<"openrouter">>, <<"gpt">>, NoTokens)}

ConcurrentNext ==
    \/ \E t \in Tasks, request \in ConcurrentRequests : LookupCall(t, request)
    \/ \E t \in Tasks, response \in {"ok", "notOk", "rejects"} : FetchSettles(t, response)
    \/ \E t \in Tasks : LookupReturn(t)
    \/ Midnight

ConcurrentSpec == ClientInit /\ [][ConcurrentNext]_vars

\* crawls one after another by one crawler, started at midnight of the first
\* day or during the second day
CrawlStartTimes == {0, TicksPerDay + 1}

CrawlInit ==
    /\ now \in CrawlStartTimes
    /\ files = [p \in StoreProviders |-> NoFile]
    /\ upd = [t \in Tasks |-> IdleUpdate]
    /\ ret = [p \in StoreProviders |-> NoOutcome]
    /\ ncalls = 0
    /\ PureIdle
    /\ ClientStart({DefaultOptions})

CrawlNext ==
    \/ \E p \in StoreProviders, l \in UniqueLists(CrawlVariants) :
          UpdateCall(Caller, p, l)
    \/ UpdateRead(Caller)
    \/ UpdateWrite(Caller)
    \/ Tick

CrawlSpec == CrawlInit /\ [][CrawlNext]_vars

\* An online client with an external cache, custom providers and a clock
\* offset of nothing or one day. Its cache and the store behind its external
\* cache are keyed by any provider id: besides the built-in ones a provider of
\* the caller's own, a provider nobody defined, and a provider id that names
\* an inherited key. The store is empty, or holds entries under those three.
OwnKeys == CacheKeys \cup {<<"mycorp">>, <<"nobody">>} \cup InheritedKeys

OwnOptions ==
    {[DefaultOptions EXCEPT !.externalCache = TRUE,
                            !.customProviders = CustomProviders,
                            !.timeOffsetMs = o] : o \in {0, TicksPerDay}}

OwnStored ==
    {[k \in OwnKeys |-> NoEntry],
     [k \in OwnKeys |->
        IF k \in CacheKeys THEN NoEntry
        ELSE StoredEntry([data |-> [current |-> [date |-> 0, models |-> RemoteModels(k)]],
                          fetchedDate |-> 0])]}

OwnRequests ==
    {Request("getModelPricing", <<"nobody">>, <<"gpt">>, NoTokens),
     Request("listModels", <<"nobody">>, NoModel, NoTokens),
     Request("listModels", <<"constructor">>, NoModel, NoTokens),
     Request("getModelPricing", <<"mycorp">>, <<"mine">>, NoTokens),
     Request("getRawProviderData", <<"mycorp">>, NoModel, NoTokens),
     Request("getModelPricing", <<"openai">>, <<"gpt">>, NoTokens)}

OwnInit ==
    /\ StoreStart
    /\ PureIdle
    /\ cfg \in OwnOptions
    /\ cache = [k \in OwnKeys |-> NoEntry]
    /\ external \in OwnStored
    /\ shown = {}
    /\ published = 0
    /\ endpointDeprecated = FALSE
    /\ lk = [t \in Tasks |-> IdleLookup]
    /\ res = NoResult
    /\ fetchedToday = {}
    /\ signals = [k \in OwnKeys |-> [callback |-> 0, warn |-> 0]]
    /\ served = [k \in OwnKeys |-> Undefined]
    /\ marked = {}

OwnNext ==
    \/ \E request \in OwnRequests : AllIdle /\ LookupCall(Caller, request)
    \/ \E outcome \in {"value", "throws"} : ExternalGetSettles(Caller, outcome)
    \/ \E response \in {"ok", "notOk", "rejects"} : FetchSettles(Caller, response)
    \/ \E outcome \in {"stored", "throws"} : ExternalSetSettles(Caller, outcome)
    \/ LookupReturn(Caller)
    \/ Midnight

OwnSpec == OwnInit /\ [][OwnNext]_vars

\* calculateCost on the record getModelPricing has given it: records with
\* and without a cached price, with a price of zero, with a key that holds
\* undefined (a custom record), with no token prices; token counts with and
\* without cachedInputTokens, which may exceed inputTokens
CostPrices == {0, 1, 3}

CostRecords ==
    {[input |-> p, output |-> q] : p, q \in CostPrices}
    \cup {[input |-> p, output |-> q, cached |-> 1] : p, q \in CostPrices}
    \cup {[input |-> 3, output |-> 1, cached |-> Undefined],
          [input |-> Undefined, output |-> 1],
          [input |-> 1], [output |-> 1], [image |-> 1]}

CostTokens ==
    {[inputTokens |-> i, outputTokens |-> o] : i \in {0, 1, 3}, o \in {0, 2}}
    \cup {[inputTokens |-> i, outputTokens |-> o, cachedInputTokens |-> c] :
            i \in {0, 1, 3}, o \in {0, 2}, c \in {0, 1, 2, 5}}

CalculateCostCalls ==
    {[op |-> "calculateCost", pricing |-> r, tokens |-> t] :
        r \in CostRecords, t \in CostTokens}

ApplyCalculateCost ==
    /\ fnIn.op = "calculateCost"
    /\ fnOut = NoCall
    /\ fnOut' = [op |-> "calculateCost",
                 result |-> calculateCostFrom(fnIn.pricing, fnIn.tokens)]
    /\ UNCHANGED <<now, ncalls, storeVars, clientVars, fnIn>>

CostInit ==
    /\ StoreStart
    /\ ClientStart({DefaultOptions})
    /\ fnIn \in CalculateCostCalls
    /\ fnOut = NoCall

CostNext == ApplyCalculateCost

CostSpec == CostInit /\ [][CostNext]_vars

\* an online client whose calls fail in every way the client can fail: a
\* model id the provider does not list, a provider nobody defined, a record
\* without token prices, a fetch that fails, a file dated off the clock
ErrorModels ==
    <<"mine">> :> [input |-> 5, output |-> 5] @@ <<"picture">> :> [image |-> 1]

ErrorOptions ==
    {[DefaultOptions EXCEPT !.customProviders = <<"mycorp">> :> ErrorModels]}

ErrorRequests ==
    {Request("getModelPricing", <<"openai">>, <<"missing">>, NoTokens),
     Request("listModels", <<"nobody">>, NoModel, NoTokens),
     Request("calculateCost", <<"mycorp">>, <<"picture">>, TokenCounts),
     Request("calculateCost", <<"mycorp">>, <<"mine">>, TokenCounts)}

ErrorInit == StoreStart /\ PureIdle /\ ClientStart(ErrorOptions)

ErrorNext ==
    \/ \E request \in ErrorRequests : AllIdle /\ LookupCall(Caller, request)
    \/ \E response \in {"ok", "notOk", "rejects"} : FetchSettles(Caller, response)
    \/ LookupReturn(Caller)
    \/ Midnight

ErrorSpec == ErrorInit /\ [][ErrorNext]_vars

\* an online client asked for a model the file lists now, for a model only
\* the file's previous snapshot lists, and for the file itself
SnapshotRequests ==
    {Request("getModelPricing", <<"openai">>, <<"gpt">>, NoTokens),
     Request("getModelPricing", <<"openai">>, <<"old">>, NoTokens),
     Request("getModelPricingOrNull", <<"openai">>, <<"old">>, NoTokens),
     Request("calculateCost", <<"openai">>, <<"gpt">>, TokenCounts),
     Request("calculateCost", <<"openai">>, <<"old">>, TokenCounts),
     Request("listModels", <<"openai">>, NoModel, NoTokens),
     Request("getRawProviderData", <<"openai">>, NoModel, NoTokens)}

SnapshotNext ==
    \/ \E request \in SnapshotRequests : AllIdle /\ LookupCall(Caller, request)
    \/ \E response \in {"ok", "notOk", "rejects"} : FetchSettles(Caller, response)
    \/ LookupReturn(Caller)
    \/ Midnight
    \/ AllIdle /\ Publish

SnapshotSpec == ClientInit /\ [][SnapshotNext]_vars

\* an online client asked for openrouter models of two sub-providers, for an
\* openrouter model id without a "/", and for a model id with a "/" under
\* another provider; its cache is keyed by every effective provider of these
RouterKeys == CacheKeys \cup {<<"openrouter", "openai">>}

RouterRequests ==
    {Request("getModelPricing", <<"openrouter">>, <<"anthropic", "claude">>, NoTokens),
     Request("getModelPricing", <<"openrouter">>, <<"anthropic", "other">>, NoTokens),
     Request("getModelPricing", <<"openrouter">>, <<"openai", "gpt">>, NoTokens),
     Request("getModelPricing", <<"openrouter">>, <<"gpt">>, NoTokens),
     Request("getModelPricing", <<"openai">>, <<"anthropic", "claude">>, NoTokens),
     Request("listModels", <<"openrouter">>, NoModel, NoTokens)}

RouterInit ==
    /\ StoreStart
    /\ PureIdle
    /\ cfg = DefaultOptions
    /\ cache = [k \in RouterKeys |-> NoEntry]
    /\ external = [k \in RouterKeys |-> NoEntry]
    /\ shown = {}
    /\ published = 0
    /\ endpointDeprecated = FALSE
    /\ lk = [t \in Tasks |-> IdleLookup]
    /\ res = NoResult
    /\ fetchedToday = {}
    /\ signals = [k \in RouterKeys |-> [callback |-> 0, warn |-> 0]]
    /\ served = [k \in RouterKeys |-> Undefined]
    /\ marked = {}

RouterNext ==
    \/ \E request \in RouterRequests : AllIdle /\ LookupCall(Caller, request)
    \/ \E response \in {"ok", "notOk", "rejects"} : FetchSettles(Caller, response)
    \/ LookupReturn(Caller)
    \/ Midnight

RouterSpec == RouterInit /\ [][RouterNext]_vars

\* an online client with an external cache and an overlay for openai, asked
\* for files and prices of the overlaid provider and of a provider without
\* overlay, while the publisher starts to mark its files as deprecated
OverlayOptions ==
    {[DefaultOptions EXCEPT !.externalCache = TRUE,
                            !.customProviders = CustomProviders]}

OverlayRequests ==
    {Request("getRawProviderData", <<"openai">>, NoModel, NoTokens),
     Request("getModelPricing", <<"openai">>, <<"gpt">>, NoTokens),
     Request("getRawProviderData", <<"openrouter">>, NoModel, NoTokens)}

OverlayInit == StoreStart /\ PureIdle /\ ClientStart(OverlayOptions)

OverlayNext ==
    \/ \E request \in OverlayRequests : AllIdle /\ LookupCall(Caller, request)
    \/ \E outcome \in {"value", "throws"} : ExternalGetSettles(Caller, outcome)
    \/ \E response \in {"ok", "notOk", "rejects"} : FetchSettles(Caller, response)
    \/ \E outcome \in {"stored", "throws"} : ExternalSetSettles(Caller, outcome)
    \/ LookupReturn(Caller)
    \/ Midnight
    \/ AllIdle /\ DeprecateEndpoint

OverlaySpec == OverlayInit /\ [][OverlayNext]_vars

\* crawls one after another whose records differ in fields the diff compares
\* and in fields it does not
MetadataNext ==
    \/ \E p \in StoreProviders, l \in UniqueLists(MetadataVariants) :
          /\ upd[Caller].pc = "idle"
          /\ UpdateCall(Caller, p, l)
    \/ UpdateRead(Caller)
    \/ UpdateWrite(Caller)
    \/ Tick

MetadataSpec == Init /\ [][MetadataNext]_vars

\* online clients with and without a deprecation callback, with and without
\* suppressDeprecationWarnings, while the publisher starts to mark its files
DeprecationOptions ==
    {[DefaultOptions EXCEPT !.onDeprecation = c, !.suppressDeprecationWarnings = s] :
        c, s \in BOOLEAN}

DeprecationRequests ==
    {Request("getModelPricing", <<"openai">>, <<"gpt">>, NoTokens),
     Request("getModelPricing", <<"openrouter">>, <<"anthropic", "claude">>, NoTokens)}

DeprecationInit == StoreStart /\ PureIdle /\ ClientStart(DeprecationOptions)

DeprecationNext ==
    \/ \E request \in DeprecationRequests : AllIdle /\ LookupCall(Caller, request)
    \/ \E response \in {"ok", "notOk", "rejects"} : FetchSettles(Caller, response)
    \/ LookupReturn(Caller)
    \/ Midnight
    \/ AllIdle /\ DeprecateEndpoint

DeprecationSpec == DeprecationInit /\ [][DeprecationNext]_vars

\* online clients with and without an external cache whose caller clears the
\* cache, one provider or all, between lookups, while the publisher starts to
\* mark its files as deprecated
ClearOptions == {[DefaultOptions EXCEPT !.externalCache = e] : e \in BOOLEAN}

ClearRequests ==
    {Request("getModelPricing", <<"openai">>, <<"gpt">>, NoTokens),
     Request("getModelPricing", <<"openrouter">>, <<"gpt">>, NoTokens)}

ClearInit == StoreStart /\ PureIdle /\ ClientStart(ClearOptions)

ClearNext ==
    \/ \E request \in ClearRequests : AllIdle /\ LookupCall(Caller, request)
    \/ \E outcome \in {"value", "throws"} : ExternalGetSettles(Caller, outcome)
    \/ \E response \in {"ok", "notOk", "rejects"} : FetchSettles(Caller, response)
    \/ \E outcome \in {"stored", "throws"} : ExternalSetSettles(Caller, outcome)
    \/ LookupReturn(Caller)
    \/ \E k \in CacheKeys : AllIdle /\ ClearCache(k)
    \/ AllIdle /\ ClearCacheAll
    \/ AllIdle /\ DeprecateEndpoint

ClearSpec == ClearInit /\ [][ClearNext]_vars

-----------------------------------------------------------------------------
(* Claims about the change-log store *)

JSONChanges(changes) == [i \in DOMAIN changes |-> JSONChange(changes[i])]

\* C1: when updateProviderPrices returns from a call whose newPrices are those
\* of the previous returned call for the provider, it returns no event and the
\* persisted event list is the one that was persisted before the call.
C1_IdempotentReapply ==
    \A p \in StoreProviders :
        (ret[p].status = "returned" /\ ret[p].repeat)
            => /\ ret[p].changes = <<>>
               /\ PersistedChanges(p) = ret[p].before

\* a repeated call has returned, for prices holding an explicit undefined, on
\* a history that already recorded an update
C1_Witness ==
    \E p \in StoreProviders :
        /\ ret[p].status = "returned" /\ ret[p].repeat
        /\ \E i \in DOMAIN ret[p].newPrices :
              /\ "cachedInputPricePerMillion" \in DOMAIN ret[p].newPrices[i]
              /\ ret[p].newPrices[i].cachedInputPricePerMillion = Undefined
        /\ \E i \in DOMAIN ret[p].before : ret[p].before[i].changeType = "updated"

\* C2: every step leaves each persisted event list a prefix of the new one, and
\* what a step adds at the end is the list of events the call returns, in order.
C2_AppendOnly ==
    [][\A p \in StoreProviders :
          LET old == PersistedChanges(p)
              new == PersistedChanges(p)'
          IN /\ Len(old) <= Len(new)
             /\ SubSeq(new, 1, Len(old)) = old
             /\ new # old =>
                  SubSeq(new, Len(old) + 1, Len(new)) = JSONChanges(ret'[p].changes)]_vars

\* a call has appended events behind the events of two earlier calls
C2_Witness ==
    \E p \in StoreProviders :
        /\ ret[p].status = "returned"
        /\ ret[p].changes # <<>>
        /\ Len(ret[p].before) >= 2
        /\ Len(PersistedChanges(p)) > Len(ret[p].before)
        /\ \E i \in DOMAIN ret[p].before : ret[p].before[i].changeType # "added"

IdsOf(list) == {list[i].modelId : i \in DOMAIN list}

EventsFor(changes, id) == {i \in DOMAIN changes : changes[i].pricing.modelId = id}

PriceKeys ==
    {"inputPricePerMillion", "outputPricePerMillion", "cachedInputPricePerMillion",
     "contextWindow", "maxOutputTokens"}

PriceOf(list, id) == (CHOOSE r \in Range(list) : r.modelId = id)

\* C3: detectChanges returns exactly one "added" event per id only in newPrices,
\* exactly one "removed" event per id only in currentPrices, and for an id in
\* both one "updated" event if one of the five price fields differs and no event
\* otherwise; it returns no other event.
C3_DiffComplete ==
    (fnOut # NoCall /\ fnOut.op = "detectChanges") =>
        LET A == IdsOf(fnIn.currentPrices)
            B == IdsOf(fnIn.newPrices)
            ch == fnOut.changes
            one(id, type) ==
                /\ Cardinality(EventsFor(ch, id)) = 1
                /\ \A i \in EventsFor(ch, id) : ch[i].changeType = type
            differs(id) ==
                \E k \in PriceKeys :
                    Field(PriceOf(fnIn.currentPrices, id), k)
                        # Field(PriceOf(fnIn.newPrices, id), k)
        IN /\ \A id \in B \ A : one(id, "added")
           /\ \A id \in A \ B : one(id, "removed")
           /\ \A id \in A \cap B :
                 IF differs(id) THEN one(id, "updated") ELSE EventsFor(ch, id) = {}
           /\ \A i \in DOMAIN ch : ch[i].pricing.modelId \in A \cup B

\* a call has reported an update, for a cached price that became undefined,
\* together with a removal
C3_Witness ==
    /\ fnOut # NoCall /\ fnOut.op = "detectChanges"
    /\ \E i, j \in DOMAIN fnOut.changes :
          /\ fnOut.changes[i].changeType = "updated"
          /\ Field(fnOut.changes[i].previousPricing, "cachedInputPricePerMillion") = 1
          /\ Field(fnOut.changes[i].pricing, "cachedInputPricePerMillion") = Undefined
          /\ fnOut.changes[j].changeType = "removed"

\* the last event of a list that names a model id, 0 if there is none
LastEventFor(changes, id) ==
    IF EventsFor(changes, id) = {} THEN 0
    ELSE CHOOSE i \in EventsFor(changes, id) : \A j \in EventsFor(changes, id) : j <= i

\* C4: the snapshot holds, for each model id, the record of the last "added" or
\* "updated" event of the list that names it, when no "removed" event for the
\* id comes after it in the list, and nothing else; positions in the list
\* decide, the date fields do not.
C4_ReplayInOrder ==
    (fnOut # NoCall /\ fnOut.op = "getCurrentSnapshot") =>
        LET cs == fnIn.history.changes
            models == fnOut.snapshot.models
            live(id) == /\ LastEventFor(cs, id) # 0
                        /\ cs[LastEventFor(cs, id)].changeType # "removed"
        IN /\ \A i, j \in DOMAIN models : models[i].modelId = models[j].modelId => i = j
           /\ \A id \in ModelIds :
                 IF live(id)
                 THEN \E i \in DOMAIN models : models[i] = cs[LastEventFor(cs, id)].pricing
                 ELSE id \notin IdsOf(models)
           /\ IdsOf(models) \subseteq ModelIds

\* a replayed list in which a model is removed and added again, with the later
\* event carrying the earlier date
C4_Witness ==
    /\ fnOut # NoCall /\ fnOut.op = "getCurrentSnapshot"
    /\ LET cs == fnIn.history.changes
       IN /\ Len(cs) = 3
          /\ cs[1].changeType = "added" /\ cs[2].changeType = "removed"
          /\ cs[3].changeType = "updated"
          /\ cs[1].pricing.modelId = cs[2].pricing.modelId
          /\ cs[2].pricing.modelId = cs[3].pricing.modelId
          /\ cs[3].date < cs[2].date
    /\ Len(fnOut.snapshot.models) = 1

-----------------------------------------------------------------------------
(* The Pricing Client: cache, fetch, clock, staleness, deprecation *)

\* a lookup is entered by this step
Entered(t) == lk[t].pc = "idle" /\ lk'[t].pc # "idle"

\* C5 as the specification words it: once a fetch for a provider succeeded on
\* a client-day, no later lookup that names this provider on that day, whatever
\* its model id, issues a fetch.
C5_NoFetchForSameProvider ==
    [][\A t \in Tasks :
          (Entered(t) /\ served[lk'[t].provider] = lk'[t].today) =>
              lk'[t].fetched = 0]_vars

\* C5: once a fetch for an effective provider (for openrouter and a model id
\* with a "/", the sub-provider "openrouter/<prefix>") has succeeded on a
\* client-day and its cache entry has not been cleared, every later lookup of
\* that day that resolves to this effective provider, by any operation, issues
\* no fetch and is answered at once; a lookup that resolves to an effective
\* provider without such a fetch issues exactly one fetch.
C5_CacheHitSuppression ==
    [][\A t \in Tasks :
          Entered(t) =>
              IF served[lk'[t].eff] = lk'[t].today
              THEN lk'[t].fetched = 0 /\ lk'[t].pc = "resolved"
              ELSE lk'[t].fetched = 1 /\ lk'[t].pc = "fetch"]_vars

\* fetches were issued for two providers today, and a lookup back to the first
\* one is answered from the cache without a fetch
C5_Witness ==
    /\ {<<"openai">>, <<"openrouter">>} \subseteq fetchedToday
    /\ \E t \in Tasks :
          /\ lk[t].pc = "resolved" /\ lk[t].source = "cache" /\ lk[t].fetched = 0
          /\ lk[t].op = "listModels"
          /\ served[lk[t].eff] = lk[t].today

C7_FetchFailureFallback ==
    \A t \in Tasks :
       (lk[t].pc \in {"resolved", "rejected"} /\ lk[t].response \in {"notOk", "rejects"}) =>
           IF lk[t].cached # NoEntry
           THEN lk[t].pc = "resolved" /\ lk[t].file = lk[t].cached.data
           ELSE lk[t].pc = "rejected"

\* C8: after a fetch that succeeded, the lookup fails with ClockMismatch, which
\* carries the client's day, the data's day and their difference, if the
\* fetched file's current date is later than the client's day or more than one
\* day earlier; if it is the client's day or the day before, the lookup
\* succeeds.
C8_ClockMismatch ==
    \A t \in Tasks :
       (lk[t].pc \in {"resolved", "rejected"} /\ lk[t].response = "ok") =>
           LET today == lk[t].today
               dataDate == lk[t].dataDate
           IN IF dataDate > today \/ dataDate < today - 1
              THEN /\ lk[t].pc = "rejected"
                   /\ lk[t].err = [kind |-> "ClockMismatch", class |-> "ClockMismatchError",
                                   clientDate |-> today, dataDate |-> dataDate,
                                   daysDiff |-> today - dataDate]
              ELSE /\ lk[t].pc = "resolved"
                   /\ lk[t].err = NoError
                   /\ lk[t].file.current.date = dataDate

\* a fetched file two days behind the client's day was refused
C8_Witness ==
    \E t \in Tasks :
       /\ lk[t].pc = "rejected" /\ lk[t].response = "ok"
       /\ lk[t].err.kind = "ClockMismatch"
       /\ lk[t].err.daysDiff = 2

\* C9: a getModelPricing or calculateCost call whose provider file was resolved
\* returns a result, and its stale flag is true exactly if the client's day,
\* read when the result is made, is later than the date of the returned data.
C9_Staleness ==
    (/\ res # NoResult
     /\ res.ghost.op \in {"getModelPricing", "calculateCost"}
     /\ res.ghost.resolved) =>
        /\ res.kind = "ok"
        /\ res.stale = (getToday > res.date)

\* a cost computed from a cached file of the day before is returned, and is stale
C9_Witness ==
    /\ res # NoResult
    /\ res.kind = "ok" /\ res.ghost.op = "calculateCost"
    /\ res.ghost.source = "cache"
    /\ res.stale
    /\ res.cost.totalCost.m > 0

\* C10: with a deprecation callback configured, the callback has run exactly
\* once for every provider for which a lookup resolved a file with a
\* deprecation marker (from a fetch, from the cache or as the fallback of a
\* failed fetch, before or after clearCache), and never for any other; each
\* provider is counted on its own.
C10_DeprecationOnce ==
    \A k \in CacheKeys :
       signals[k].callback + signals[k].warn = (IF k \in marked THEN 1 ELSE 0)

\* two providers were signalled, and a marked file is resolved once more
C10_Witness ==
    /\ Cardinality(marked) >= 2
    /\ \A k \in marked : signals[k].callback = 1
    /\ \E t \in Tasks :
          /\ lk[t].pc = "resolved" /\ lk[t].source = "cache"
          /\ "deprecated" \in DOMAIN lk[t].file
          /\ lk[t].eff \in marked

-----------------------------------------------------------------------------
(* The Pricing Client: overlays, null results, offline mode *)

\* C11: for a built-in provider with a custom overlay, the models of the
\* resolved file are the remote ids together with the overlay's ids; an id of
\* the overlay carries the overlay's entry and nothing of the remote entry, an
\* id only the server lists carries the remote entry.
C11_OverlayPrecedence ==
    \A t \in Tasks :
       (/\ lk[t].pc = "resolved"
        /\ lk[t].source \in {"fetch", "cache", "fallback"}
        /\ lk[t].provider \in DOMAIN cfg.customProviders) =>
           LET models == lk[t].file.current.models
               remote == RemoteModels(lk[t].eff)
               overlay == cfg.customProviders[lk[t].provider]
           IN /\ DOMAIN models = DOMAIN remote \cup DOMAIN overlay
              /\ \A id \in DOMAIN overlay : models[id] = overlay[id]
              /\ \A id \in DOMAIN remote \ DOMAIN overlay : models[id] = remote[id]

\* a fetched file merged with the overlay: the remote entry of "gpt" had a
\* cached price, the returned one has none; "mini" is the server's, "mine" the
\* caller's
C11_Witness ==
    \E t \in Tasks :
       /\ lk[t].pc = "resolved" /\ lk[t].source = "fetch"
       /\ lk[t].provider = <<"openai">>
       /\ "cached" \in DOMAIN RemoteModels(<<"openai">>)[<<"gpt">>]
       /\ "cached" \notin DOMAIN lk[t].file.current.models[<<"gpt">>]
       /\ lk[t].file.current.models[<<"mini">>] = RemoteModels(<<"openai">>)[<<"mini">>]
       /\ <<"mine">> \in DOMAIN lk[t].file.current.models

\* C12: getModelPricingOrNull gives null exactly when the provider file was
\* resolved and does not list the model id; when the provider file was not
\* resolved (ProviderNotFound, ClockMismatch, a failed fetch without a cache
\* entry), the caller receives that failure.
C12_NullOnlyForModelNotFound ==
    (res # NoResult /\ res.ghost.op = "getModelPricingOrNull") =>
        /\ (res.kind = "null") = (res.ghost.resolved /\ ~res.ghost.found)
        /\ ~res.ghost.resolved => res.kind = res.ghost.err.kind

\* C13: on an offline client no fetch is in flight and the external cache is
\* neither read nor written, whatever was called; a lookup for a provider id
\* with custom data resolves to a file whose models are exactly the custom
\* ones, and a lookup for any other provider id fails with ProviderNotFound.
C13_Offline ==
    /\ fetchedToday = {}
    /\ external \in OfflineStored
    /\ \A k \in CacheKeys : cache[k] = NoEntry
    /\ \A t \in Tasks :
          /\ lk[t].pc \in {"idle", "resolved", "rejected"}
          /\ lk[t].pc # "idle" =>
                /\ lk[t].fetched = 0
                /\ IF lk[t].provider \in DOMAIN CustomProviders
                   THEN /\ lk[t].pc = "resolved"
                        /\ lk[t].file.current.models = CustomProviders[lk[t].provider]
                   ELSE /\ lk[t].pc = "rejected"
                        /\ lk[t].err.kind = "ProviderNotFound"

-----------------------------------------------------------------------------
(* Calls in flight at the same time *)

\* C14: two lookups of the same client-day that are in flight at the same time
\* and resolve to the same provider never both have a fetch outstanding.
C14_NoDuplicateFetch ==
    \A t, u \in Tasks :
       (/\ t # u
        /\ lk[t].pc = "fetch" /\ lk[u].pc = "fetch"
        /\ lk[t].eff = lk[u].eff) =>
           lk[t].today # lk[u].today

\* C15: when a call of updateProviderPrices is about to write, the event list
\* it writes is the list persisted at that moment followed by the events the
\* call emits: nothing was persisted between its read and its write, so no
\* event of another call is lost.
C15_NoLostUpdate ==
    \A t \in Tasks :
       upd[t].pc = "write" =>
           JSONChanges(upd[t].history.changes)
               = PersistedChanges(upd[t].provider) \o JSONChanges(upd[t].changes)

\* C16: a caller of updateProviderPrices that received an event list finds
\* these events persisted, at the end of the provider's event list; when the
\* write failed the call failed, and the persisted list is the one from before
\* the call.
C16_NoPartialSuccess ==
    \A p \in StoreProviders :
       /\ ret[p].status = "returned" =>
             PersistedChanges(p) = ret[p].before \o JSONChanges(ret[p].changes)
       /\ ret[p].status = "threw" => PersistedChanges(p) = ret[p].before

\* a call that had events to add failed at its write, after an earlier call
\* had persisted events
C16_Witness ==
    \E p \in StoreProviders :
       /\ ret[p].status = "threw"
       /\ ret[p].changes # <<>>
       /\ ret[p].before # <<>>
       /\ \A t \in Tasks : upd[t].pc = "idle"

-----------------------------------------------------------------------------
(* The Pricing Client: the external cache and the in-memory cache *)

\* C17: a lookup whose externalCache.get threw, or gave a value that cannot be
\* parsed, has no cache entry in hand and has gone on to the fetch; a lookup
\* whose externalCache.set threw after a fetch that succeeded is resolved with
\* the fetched data, and the in-memory entry holds that data with the lookup's
\* day as fetch-date.
C17_ExternalFailuresSwallowed ==
    \A t \in Tasks :
       lk[t].pc # "idle" =>
          /\ lk[t].external \in {"threw", "garbage"} =>
                lk[t].cached = NoEntry /\ lk[t].fetched = 1
          /\ lk[t].saved = "throws" =>
                /\ lk[t].pc = "resolved" /\ lk[t].source = "fetch"
                /\ lk[t].file.current.date = lk[t].dataDate
                /\ cache[lk[t].eff] = [data |-> lk[t].file, fetchedDate |-> lk[t].today]

\* one lookup met a stored value that cannot be parsed, fetched, and then met
\* a throwing set
C17_Witness ==
    \E t \in Tasks :
       /\ lk[t].pc = "resolved"
       /\ lk[t].external = "garbage"
       /\ lk[t].saved = "throws"

\* C18: when the in-memory cache has no entry and the external cache gives an
\* entry whose fetch-date is the lookup's day, the lookup is resolved from that
\* entry without a fetch and the entry is put into the in-memory cache; a
\* lookup that finds an in-memory entry of its day is resolved at once, without
\* a fetch and without reading the external cache.
C18_CrossRestartHit ==
    [][\A t \in Tasks :
          /\ (/\ lk[t].pc = "externalGet" /\ lk'[t].pc # "externalGet"
              /\ lk'[t].external = "hit"
              /\ external[lk[t].eff].json.fetchedDate = lk[t].today) =>
                 /\ lk'[t].pc = "resolved" /\ lk'[t].fetched = 0
                 /\ lk'[t].file = external[lk[t].eff].json.data
                 /\ cache'[lk[t].eff] = external[lk[t].eff].json
          /\ (/\ Entered(t)
              /\ cache[lk'[t].eff] # NoEntry
              /\ cache[lk'[t].eff].fetchedDate = lk'[t].today) =>
                 lk'[t].pc = "resolved" /\ lk'[t].fetched = 0]_vars

\* a client that never fetched answers its second lookup from the entry its
\* first lookup took from the external cache
C18_Witness ==
    /\ fetchedToday = {}
    /\ ncalls >= 2
    /\ \E t \in Tasks :
          /\ lk[t].pc = "resolved" /\ lk[t].source = "cache"
          /\ lk[t].external = "none"
          /\ external[lk[t].eff] # NoEntry
          /\ external[lk[t].eff] # Garbage
          /\ cache[lk[t].eff] = external[lk[t].eff].json

\* C19: a step changes the in-memory cache entry of a provider only in one of
\* three ways: a lookup for this provider whose fetch succeeded and passed the
\* clock check writes the fetched file together with the lookup's day; a lookup
\* for this provider writes the entry it loaded from the external cache;
\* clearCache removes the entry. A cache hit, a failed fetch and a
\* ClockMismatch change no entry, and no lookup changes the entry of a
\* provider other than its own.
C19_CacheEntriesWholesale ==
    [][\A k \in CacheKeys :
          cache'[k] # cache[k] =>
             \/ cache'[k] = NoEntry /\ AllIdle /\ AllIdle'
             \/ \E t \in Tasks :
                   /\ lk[t].pc = "fetch" /\ lk[t].eff = k
                   /\ lk'[t].response = "ok"
                   /\ lk'[t].pc \in {"resolved", "externalSet"}
                   /\ lk'[t].dataDate \in {lk[t].today, lk[t].today - 1}
                   /\ cache'[k] = [data |-> RemoteFile(k), fetchedDate |-> lk[t].today]
             \/ \E t \in Tasks :
                   /\ lk[t].pc = "externalGet" /\ lk[t].eff = k
                   /\ lk'[t].external = "hit"
                   /\ cache'[k] = external[k].json]_vars

\* a lookup ended in ClockMismatch and the entry of an earlier day is still
\* the one the lookup found
C19_Witness ==
    \E t \in Tasks :
       /\ lk[t].pc = "rejected" /\ lk[t].err.kind = "ClockMismatch"
       /\ lk[t].cached # NoEntry
       /\ cache[lk[t].eff] = lk[t].cached

-----------------------------------------------------------------------------
(* Replay *)

-----------------------------------------------------------------------------
(* The change-log store: malformed histories, first crawl, diff and replay *)

\* a list without its i-th element
Without(s, i) == SubSeq(s, 1, i - 1) \o SubSeq(s, i + 1, Len(s))

\* the i-th event removes a model id that the replay of the events before it
\* does not hold (never added, or removed already)
RemovesAbsent(cs, i) ==
    /\ cs[i].changeType = "removed"
    /\ ~MapHas(ReplayChanges(SubSeq(cs, 1, i - 1)), cs[i].pricing.modelId)

\* C21: getCurrentSnapshot returns a snapshot for a list that holds a "removed"
\* event for a model id the snapshot does not hold at that point, and the
\* snapshot is the one of the list without that event: same records, same order.
C21_RemovedTolerance ==
    (fnOut # NoCall /\ fnOut.op = "getCurrentSnapshot") =>
        LET cs == fnIn.history.changes
        IN \A i \in DOMAIN cs :
              RemovesAbsent(cs, i) =>
                  fnOut.snapshot.models = MapValues(ReplayChanges(Without(cs, i)))

\* a replayed list that removes a model id never added, between an "added"
\* and an "updated" event of another model id, which the snapshot holds
C21_Witness ==
    /\ fnOut # NoCall /\ fnOut.op = "getCurrentSnapshot"
    /\ LET cs == fnIn.history.changes
       IN /\ Len(cs) = 3
          /\ cs[1].changeType = "added" /\ cs[3].changeType = "updated"
          /\ RemovesAbsent(cs, 2)
          /\ cs[2].pricing.modelId # cs[1].pricing.modelId
          /\ cs[3].pricing.modelId = cs[1].pricing.modelId
    /\ Len(fnOut.snapshot.models) = 1

\* C22: when updateProviderPrices finds no history for the provider, its write
\* creates the history, the call returns one "added" event for every entry of
\* newPrices, in input order, each dated with the day of the timestamp the
\* history records as lastCrawled, and the persisted events are those events.
C22_FirstCrawl ==
    [][\A t \in Tasks :
          (/\ upd[t].pc = "write" /\ upd'[t].pc = "idle"
           /\ ~files[upd[t].provider].exists
           /\ ret'[upd[t].provider].status = "returned") =>
              LET p == upd[t].provider
                  new == upd[t].newPrices
                  out == ret'[p].changes
                  log == files'[p]
              IN /\ log.exists /\ log.provider = p
                 /\ Len(out) = Len(new)
                 /\ \A i \in DOMAIN new :
                       out[i] = [date |-> DayOf(log.lastCrawled), changeType |-> "added",
                                 pricing |-> new[i]]
                 /\ log.changes = JSONChanges(out)]_vars

\* a first crawl of two models, observed during the second day, has returned
C22_Witness ==
    \E p \in StoreProviders :
        /\ ncalls = 1
        /\ ret[p].status = "returned"
        /\ Len(ret[p].changes) = 2
        /\ ret[p].changes[1].pricing.modelId = 2
        /\ files[p].lastCrawled = TicksPerDay + 1
        /\ files[p].changes[1].date = 1

\* C28: after updateProviderPrices has returned, the replay of the persisted
\* log holds exactly the model ids of newPrices, each once, and each record
\* agrees with the entry of newPrices in the five price fields.
C28_DiffThenReplay ==
    \A p \in StoreProviders :
        ret[p].status = "returned" =>
            LET new == ret[p].newPrices
                models == getCurrentSnapshot(files[p]).models
            IN /\ IdsOf(models) = IdsOf(new)
               /\ \A i, j \in DOMAIN models :
                     models[i].modelId = models[j].modelId => i = j
               /\ \A i \in DOMAIN models : \A k \in PriceKeys :
                     Field(models[i], k) = Field(PriceOf(new, models[i].modelId), k)

\* a crawl that dropped one model and brought another has returned, on a log
\* that recorded a price update before
C28_Witness ==
    \E p \in StoreProviders :
        /\ ret[p].status = "returned"
        /\ \E i \in DOMAIN ret[p].before : ret[p].before[i].changeType = "updated"
        /\ \E i, j \in DOMAIN ret[p].changes :
              /\ ret[p].changes[i].changeType = "added"
              /\ ret[p].changes[j].changeType = "removed"
        /\ Len(getCurrentSnapshot(files[p]).models) = 1

-----------------------------------------------------------------------------
(* The Pricing Client: providers that are not built in *)

\* the lookup entered by this step neither fetches, nor reads or writes the
\* external cache, nor changes the cache
NothingTouched(t) ==
    /\ lk'[t].pc \in {"resolved", "rejected"}
    /\ lk'[t].fetched = 0
    /\ lk'[t].external = "none" /\ lk'[t].saved = "none"
    /\ cache' = cache
    /\ external' = external

\* C23: on an online client, a lookup for a provider id that is not built in
\* and is not a key of customProviders fails at once with ProviderNotFound,
\* with no fetch, no read of the external cache and no change of the cache.
C23_UnknownProvider ==
    [][\A t \in Tasks :
          (/\ Entered(t)
           /\ ~cfg.offline
           /\ ~isBuiltInProvider(lk'[t].provider)
           /\ lk'[t].provider \notin DOMAIN cfg.customProviders) =>
              /\ NothingTouched(t)
              /\ lk'[t].pc = "rejected"
              /\ lk'[t].err.kind = "ProviderNotFound"]_vars

\* C24: on an online client, a lookup for a provider id that is a key of
\* customProviders and is not built in resolves at once to a file that holds
\* nothing but a current snapshot, dated with the client's own day (clock plus
\* offset) and holding exactly the custom models, with no fetch, no use of the
\* external cache and no change of the cache.
C24_CustomOnlyProvider ==
    [][\A t \in Tasks :
          (/\ Entered(t)
           /\ ~cfg.offline
           /\ ~isBuiltInProvider(lk'[t].provider)
           /\ lk'[t].provider \in DOMAIN cfg.customProviders) =>
              /\ NothingTouched(t)
              /\ lk'[t].pc = "resolved"
              /\ lk'[t].file =
                    [current |-> [date |-> DayOf(now + cfg.timeOffsetMs),
                                  models |-> cfg.customProviders[lk'[t].provider]]]]_vars

\* the caller's own provider resolved on a client whose day is ahead of the
\* wall clock's, while the external cache holds an entry under its key
C24_Witness ==
    \E t \in Tasks :
       /\ lk[t].pc = "resolved" /\ lk[t].source = "custom"
       /\ lk[t].provider = <<"mycorp">>
       /\ lk[t].op = "getRawProviderData"
       /\ lk[t].file.current.date = DayOf(now) + 1
       /\ external[<<"mycorp">>] # NoEntry
       /\ cache[<<"mycorp">>] = NoEntry

-----------------------------------------------------------------------------
(* The Pricing Client: cost calculation *)

Abs(n) == IF n < 0 THEN -n ELSE n

\* cachedInputTokens as calculateCost takes it
CachedTokens(tokens) ==
    IF Field(tokens, "cachedInputTokens") = Undefined THEN 0 ELSE tokens.cachedInputTokens

\* the rate calculateCost charges cached tokens at
CachedRate(pricing) ==
    IF Field(pricing, "cached") # Undefined THEN pricing.cached ELSE pricing.input

\* the number x differs from the exact n / 1,000,000 by at most four roundings
\* of a / 1,000,000, that is |x - n / 1,000,000| <= 4 * 2^-MantissaBits * a / 1,000,000
WithinRounding(x, n, a) ==
    Abs(x.m * PerMillion - n * 2^(-x.e)) * 2^(MantissaBits - 2) <= a * 2^(-x.e)

\* a calculateCost call has returned cost figures
CostReturned == fnOut # NoCall /\ fnOut.op = "calculateCost" /\ fnOut.result.kind = "ok"

\* C25 as the specification words it: usedCachedPricing is true exactly if
\* cachedInputTokens > 0 and the record has a cached price, and for a record
\* with no cached price inputCost is the number calculateCost gives for
\* inputTokens x input price per million, whatever cachedInputTokens is.
C25_CostArithmeticExact ==
    CostReturned =>
        LET cost == fnOut.result.cost
            pricing == fnIn.pricing
            tokens == fnIn.tokens
        IN /\ cost.usedCachedPricing =
                 (CachedTokens(tokens) > 0 /\ Field(pricing, "cached") # Undefined)
           /\ Field(pricing, "cached") = Undefined =>
                 cost.inputCost = Times(Quotient(tokens.inputTokens, PerMillion), pricing.input)

\* C25: inputCost is (inputTokens - cachedInputTokens) x input price per
\* million + cachedInputTokens x (cached price if the record has one, else
\* input price) per million, and outputCost is outputTokens x output price per
\* million, each up to the rounding of the number operations that compute it;
\* totalCost is the number sum of the two; usedCachedPricing is true exactly
\* if cachedInputTokens > 0 and the record has a cached price. For a record
\* with no cached price inputCost is within that rounding of inputTokens x
\* input price per million: cached tokens are neither dropped nor charged twice.
C25_CostArithmetic ==
    CostReturned =>
        LET cost == fnOut.result.cost
            pricing == fnIn.pricing
            tokens == fnIn.tokens
            c == CachedTokens(tokens)
            regular == tokens.inputTokens - c
        IN /\ WithinRounding(cost.inputCost,
                             regular * pricing.input + c * CachedRate(pricing),
                             Abs(regular) * pricing.input + c * CachedRate(pricing))
           /\ WithinRounding(cost.outputCost,
                             tokens.outputTokens * pricing.output,
                             tokens.outputTokens * pricing.output)
           /\ cost.totalCost = Plus(cost.inputCost, cost.outputCost)
           /\ cost.usedCachedPricing = (c > 0 /\ Field(pricing, "cached") # Undefined)
           /\ Field(pricing, "cached") = Undefined =>
                 WithinRounding(cost.inputCost, tokens.inputTokens * pricing.input,
                                (Abs(regular) + c) * pricing.input)

\* a cost for a record with no cached price and some cached tokens among the
\* input tokens, whose inputCost is not the number the call gives without them
C25_Witness ==
    /\ CostReturned
    /\ Field(fnIn.pricing, "cached") = Undefined
    /\ CachedTokens(fnIn.tokens) > 0
    /\ CachedTokens(fnIn.tokens) < fnIn.tokens.inputTokens
    /\ ~fnOut.result.cost.usedCachedPricing
    /\ fnOut.result.cost.inputCost
          # Times(Quotient(fnIn.tokens.inputTokens, PerMillion), fnIn.pricing.input)

\* C26: calculateCost fails with UnsupportedPricingModel, and gives no cost
\* figure, exactly if the record has no input price or no output price; with
\* both it gives cost figures, also for a price of zero.
C26_UnsupportedPricingModel ==
    (fnOut # NoCall /\ fnOut.op = "calculateCost") =>
        IF \/ Field(fnIn.pricing, "input") = Undefined
           \/ Field(fnIn.pricing, "output") = Undefined
        THEN /\ fnOut.result.kind = "UnsupportedPricingModel"
             /\ "cost" \notin DOMAIN fnOut.result
        ELSE /\ fnOut.result.kind = "ok"
             /\ DOMAIN fnOut.result.cost
                   = {"inputCost", "outputCost", "totalCost", "usedCachedPricing"}

\* a cost for a record whose input price is zero: the input costs nothing,
\* the output does
C26_Witness ==
    /\ CostReturned
    /\ fnIn.pricing.input = 0
    /\ fnIn.tokens.inputTokens > 0
    /\ fnOut.result.cost.inputCost = Zero
    /\ fnOut.result.cost.outputCost.m > 0

-----------------------------------------------------------------------------
(* The Pricing Client: errors *)

\* the errors the client's own throw statements make
ThrownErrors ==
    {ModelNotFound, ProviderNotFound, UnsupportedPricingModel, FetchFailed,
     ClockMismatch(0, 0, 0)}

\* C27: the error a call hands to its caller can be told from the errors of
\* every other kind the client throws by what it is (its class), without
\* reading its message.
C27_DistinctErrorKinds ==
    (res # NoResult /\ "class" \in DOMAIN res) =>
        \A e \in ThrownErrors : e.kind # res.kind => e.class # res.class

-----------------------------------------------------------------------------
(* The Pricing Client: what the cache holds, and the daily refresh *)

C30_DailyRefresh ==
    \A t \in Tasks :
       (/\ lk[t].pc # "idle"
        /\ lk[t].cached # NoEntry
        /\ lk[t].cached.fetchedDate # lk[t].today) =>
           /\ lk[t].fetched = 1
           /\ lk[t].source # "cache"
           /\ (lk[t].pc = "resolved" /\ lk[t].response = "ok") =>
                 /\ cache[lk[t].eff] =
                       [data |-> RemoteFile(lk[t].eff), fetchedDate |-> lk[t].today]
                 /\ cache[lk[t].eff] # lk[t].cached

\* yesterday's entry was replaced by a fetch of today, which brought the file
\* published in the meantime
C30_Witness ==
    \E t \in Tasks :
       /\ lk[t].pc = "resolved" /\ lk[t].source = "fetch"
       /\ lk[t].cached # NoEntry
       /\ lk[t].cached.fetchedDate = lk[t].today - 1
       /\ cache[lk[t].eff].fetchedDate = lk[t].today
       /\ cache[lk[t].eff].data.current.date = lk[t].cached.data.current.date + 1

\* C31: a lookup that finds a cache entry fetched on its own today, holding a
\* file dated the day before, issues no fetch and is answered from that entry,
\* which stays in the cache, whatever has been published since; the result
\* made from it carries the file's date, the day before the lookup's today,
\* and stale = true.
C31_DayOldFilePinned ==
    /\ \A t \in Tasks :
          (/\ lk[t].pc # "idle"
           /\ lk[t].cached # NoEntry
           /\ lk[t].cached.fetchedDate = lk[t].today
           /\ lk[t].cached.data.current.date = lk[t].today - 1) =>
              /\ lk[t].fetched = 0
              /\ lk[t].pc = "resolved" /\ lk[t].source = "cache"
              /\ lk[t].file.current = lk[t].cached.data.current
              /\ cache[lk[t].eff] = lk[t].cached
    /\ (/\ res # NoResult
        /\ res.ghost.source = "cache"
        /\ res.ghost.op \in {"getModelPricing", "calculateCost"}
        /\ res.kind = "ok"
        /\ cache[res.ghost.eff].data.current.date = res.ghost.today - 1) =>
           /\ res.ghost.fetched = 0
           /\ res.date = res.ghost.today - 1
           /\ res.stale

\* a price is returned from the day-old entry, stale, on the day of its fetch,
\* after a newer file was published
C31_Witness ==
    /\ res # NoResult
    /\ res.kind = "ok" /\ res.ghost.op = "getModelPricing"
    /\ res.ghost.source = "cache" /\ res.ghost.fetched = 0
    /\ res.ghost.returnDay = res.ghost.today
    /\ res.date = res.ghost.today - 1
    /\ res.stale
    /\ published > res.date
    /\ cache[res.ghost.eff].fetchedDate = res.ghost.today

-----------------------------------------------------------------------------
(* The Pricing Client: the two snapshots of a file *)

\* C32: every operation that resolved a provider file answers from the
\* file's current snapshot: listModels gives the ids of current;
\* getModelPricing and calculateCost give the record and the date of current
\* for an id current lists, and ModelNotFound (getModelPricingOrNull: null)
\* for any other id, an id only previous lists included; the previous
\* snapshot comes out of getRawProviderData alone, as the file holds it.
C32_CurrentSnapshotOnly ==
    (res # NoResult /\ res.ghost.resolved) =>
        LET file == cache[res.ghost.eff].data
            id == res.ghost.modelId
            listed == id \in DOMAIN file.current.models
        IN CASE res.ghost.op = "listModels" ->
                  res.kind = "ok" /\ res.models = DOMAIN file.current.models
             [] res.ghost.op = "getRawProviderData" ->
                  res.kind = "ok" /\ res.file = file
             [] res.ghost.op = "getModelPricingOrNull" ->
                  IF listed
                  THEN /\ res.kind = "ok"
                       /\ res.pricing = file.current.models[id]
                       /\ res.date = file.current.date
                  ELSE res.kind = "null"
             [] res.ghost.op = "getModelPricing" ->
                  IF listed
                  THEN /\ res.kind = "ok"
                       /\ res.pricing = file.current.models[id]
                       /\ res.date = file.current.date
                  ELSE /\ res.kind = "ModelNotFound"
                       /\ res.available = DOMAIN file.current.models
             [] res.ghost.op = "calculateCost" ->
                  IF listed
                  THEN /\ res.kind = "ok"
                       /\ res.cost = costOf(file.current.models[id], TokenCounts)
                       /\ res.date = file.current.date
                  ELSE res.kind = "ModelNotFound"

\* a model that only the previous snapshot lists is not found
C32_Witness ==
    /\ res # NoResult /\ res.ghost.resolved
    /\ res.kind = "ModelNotFound"
    /\ res.ghost.op = "calculateCost"
    /\ res.ghost.modelId \in DOMAIN cache[res.ghost.eff].data.previous.models

-----------------------------------------------------------------------------
(* The Pricing Client: openrouter sub-providers *)

\* the cache key the claim names for a lookup
SubProviderKey(l) ==
    IF l.provider = <<"openrouter">> /\ Len(l.modelId) >= 2
    THEN <<"openrouter", l.modelId[1]>>
    ELSE l.provider

\* C33: a lookup for provider openrouter with a model id prefix/rest works on
\* the key openrouter/prefix alone: when the cache holds an entry under that
\* key fetched today it is answered from that entry without a fetch, and
\* otherwise, whatever the cache holds under other keys, it fetches the file
\* of that key; the fetched file is stored under that key and no other entry
\* changes.
C33_OpenRouterRouting ==
    [][\A t \in Tasks :
         LET l == lk'[t]
             key == SubProviderKey(l)
         IN /\ (lk[t].pc = "idle" /\ l.pc # "idle") =>
                  IF cache[key] # NoEntry /\ cache[key].fetchedDate = l.today
                  THEN /\ l.pc = "resolved" /\ l.source = "cache" /\ l.fetched = 0
                       /\ l.file = cache[key].data
                       /\ fetchedToday' = fetchedToday
                  ELSE /\ l.pc = "fetch" /\ l.fetched = 1
                       /\ fetchedToday' = fetchedToday \cup {key}
            /\ (lk[t].pc = "fetch" /\ l.pc = "resolved" /\ l.source = "fetch") =>
                  /\ cache'[key] = [data |-> RemoteFile(key), fetchedDate |-> l.today]
                  /\ l.file = RemoteFile(key)
                  /\ \A k \in RouterKeys \ {key} : cache'[k] = cache[k]
    ]_vars

\* the files of two sub-providers and the file of openrouter itself are
\* cached side by side, and a model of one sub-provider is answered from its
\* entry
C33_Witness ==
    /\ cache[<<"openrouter", "anthropic">>] # NoEntry
    /\ cache[<<"openrouter", "openai">>] # NoEntry
    /\ cache[<<"openrouter", "anthropic">>].data # cache[<<"openrouter", "openai">>].data
    /\ \E t \in Tasks :
          /\ lk[t].pc = "resolved" /\ lk[t].source = "cache"
          /\ lk[t].provider = <<"openrouter">>
          /\ lk[t].modelId = <<"anthropic", "other">>
          /\ lk[t].eff = <<"openrouter", "anthropic">>

-----------------------------------------------------------------------------
(* The Pricing Client: the overlay and the caches *)

\* the files the server has served for a key: with and without the marker
FilesServed(k) ==
    LET file == [current |-> [date |-> published, models |-> RemoteModels(k)],
                 previous |-> [date |-> published - 1, models |-> PreviousModels(k)]]
    IN {file, With(file, "deprecated", DeprecationInfo)}

\* the overlay as the claim words it: every custom record as it is, every
\* other record of the file as it is
Overlaid(models, custom) ==
    [m \in DOMAIN models \cup DOMAIN custom |->
       IF m \in DOMAIN custom THEN custom[m] ELSE models[m]]

\* C34: every in-memory cache entry and every entry in the external cache
\* holds a file as the server served it, without the overlay; a file returned
\* for an overlaid provider is the cached file with the custom records laid
\* over the models of its current snapshot, its date, its previous snapshot
\* and its deprecation marker being those of the cached file; a file returned
\* for a provider without overlay is the cached file.
C34_OverlayLeavesCache ==
    /\ \A k \in CacheKeys :
          /\ cache[k] # NoEntry => cache[k].data \in FilesServed(k)
          /\ external[k] # NoEntry => external[k].json.data \in FilesServed(k)
    /\ \A t \in Tasks :
          (lk[t].pc = "resolved" /\ lk[t].source # "custom") =>
             LET base == cache[lk[t].eff].data
                 file == lk[t].file
             IN IF lk[t].provider \in DOMAIN cfg.customProviders
                THEN /\ DOMAIN file = DOMAIN base
                     /\ file.current.date = base.current.date
                     /\ file.current.models =
                           Overlaid(base.current.models,
                                    cfg.customProviders[lk[t].provider])
                     /\ file.previous = base.previous
                     /\ "deprecated" \in DOMAIN base =>
                           file.deprecated = base.deprecated
                ELSE file = base

\* a marked file is returned from the cache with the overlay on it, a second
\* time, while the cache and the external cache hold it without
C34_Witness ==
    \E t \in Tasks :
       /\ lk[t].pc = "resolved" /\ lk[t].source = "cache"
       /\ lk[t].provider \in DOMAIN cfg.customProviders
       /\ "deprecated" \in DOMAIN lk[t].file
       /\ lk[t].file.current.models # cache[lk[t].eff].data.current.models
       /\ external[lk[t].eff] # NoEntry
       /\ external[lk[t].eff].json.data = cache[lk[t].eff].data

-----------------------------------------------------------------------------
(* The change-log store: what the diff compares, what its events carry *)

\* two records of one model id that are not the same and agree in every
\* price field
DiffersOutsidePrices(a, b) ==
    /\ a.modelId = b.modelId
    /\ JSONPricing(a) # JSONPricing(b)
    /\ \A k \in PriceKeys : Field(a, k) = Field(b, k)

\* C35: when updateProviderPrices returns for a provider that had a history,
\* a model whose record in newPrices differs from the snapshot's record only
\* in metadata or display name has no event among the returned changes, and
\* the snapshot replayed from the written log still holds the earlier record
\* for it; when there are no changes at all, the written log is the log as
\* it was.
C35_MetadataNotCompared ==
    [][\A t \in Tasks :
          (/\ upd[t].pc = "write" /\ upd'[t].pc = "idle"
           /\ files[upd[t].provider].exists
           /\ ret'[upd[t].provider].status = "returned") =>
              LET p == upd[t].provider
                  new == upd[t].newPrices
                  old == getCurrentSnapshot(files[p]).models
                  out == ret'[p].changes
                  after == getCurrentSnapshot(files'[p]).models
              IN /\ \A i \in DOMAIN old, j \in DOMAIN new :
                       DiffersOutsidePrices(old[i], new[j]) =>
                          /\ EventsFor(out, old[i].modelId) = {}
                          /\ \E n \in DOMAIN after : after[n] = old[i]
                 /\ out = <<>> => files'[p].changes = files[p].changes]_vars

\* a crawl that brought new metadata for a model, and nothing else, has
\* returned no change and has left the log as it was
C35_Witness ==
    \E p \in StoreProviders :
        /\ ret[p].status = "returned"
        /\ ret[p].changes = <<>>
        /\ files[p].changes = ret[p].before
        /\ \E i \in DOMAIN ret[p].newPrices :
              /\ "metadata" \in DOMAIN ret[p].newPrices[i]
              /\ \E n \in DOMAIN getCurrentSnapshot(files[p]).models :
                    /\ getCurrentSnapshot(files[p]).models[n].modelId
                          = ret[p].newPrices[i].modelId
                    /\ "metadata" \notin DOMAIN getCurrentSnapshot(files[p]).models[n]

\* C36: every event detectChanges returns carries the date of the call; an
\* "updated" event carries the record of newPrices as pricing and the record
\* of currentPrices for the same id as previousPricing; an "added" event
\* carries the record of newPrices and a "removed" event the record of
\* currentPrices, and neither has a previousPricing.
C36_EventPayloads ==
    (fnOut # NoCall /\ fnOut.op = "detectChanges") =>
        \A i \in DOMAIN fnOut.changes :
           LET e == fnOut.changes[i]
               id == e.pricing.modelId
           IN /\ e.date = fnIn.date
              /\ CASE e.changeType = "updated" ->
                        /\ DOMAIN e = {"date", "changeType", "pricing", "previousPricing"}
                        /\ e.pricing = PriceOf(fnIn.newPrices, id)
                        /\ e.previousPricing = PriceOf(fnIn.currentPrices, id)
                   [] e.changeType = "added" ->
                        /\ DOMAIN e = {"date", "changeType", "pricing"}
                        /\ e.pricing = PriceOf(fnIn.newPrices, id)
                   [] e.changeType = "removed" ->
                        /\ DOMAIN e = {"date", "changeType", "pricing"}
                        /\ e.pricing = PriceOf(fnIn.currentPrices, id)
                   [] OTHER -> FALSE

\* one call has reported an update of a record that had metadata by a record
\* that has none, and an added model
C36_Witness ==
    /\ fnOut # NoCall /\ fnOut.op = "detectChanges"
    /\ \E i, j \in DOMAIN fnOut.changes :
          /\ fnOut.changes[i].changeType = "updated"
          /\ "metadata" \in DOMAIN fnOut.changes[i].previousPricing
          /\ "metadata" \notin DOMAIN fnOut.changes[i].pricing
          /\ fnOut.changes[j].changeType = "added"

\* the lists that hold the entries of a list in another order, or in the same
Reorderings(list) ==
    {q \in [DOMAIN list -> Range(list)] :
        \E f \in [DOMAIN list -> DOMAIN list] :
           /\ \A i, j \in DOMAIN list : f[i] = f[j] => i = j
           /\ \A i \in DOMAIN list : q[i] = list[f[i]]}

\* C37: when updateProviderPrices returns, the set of the changes it returns
\* and the snapshot replayed from the log it wrote, as a mapping from model id
\* to record, are those that any other order of the entries of newPrices would
\* have given on the same history at the same time.
C37_InputOrder ==
    [][\A t \in Tasks :
          (/\ upd[t].pc = "write" /\ upd'[t].pc = "idle"
           /\ ret'[upd[t].provider].status = "returned") =>
              LET p == upd[t].provider
                  at == upd[t].history.lastCrawled
              IN \A q \in Reorderings(upd[t].newPrices) :
                    LET r == updateHistory(files[p], p, "url", q, at)
                    IN /\ Range(r.changes) = Range(ret'[p].changes)
                       /\ Range(getCurrentSnapshot(JSONHistory(r.history)).models)
                            = Range(getCurrentSnapshot(files'[p]).models)]_vars

\* a crawl that listed two models in the order opposite to that of the log has
\* returned one update
C37_Witness ==
    \E p \in StoreProviders :
        /\ ret[p].status = "returned"
        /\ Len(ret[p].newPrices) = 2
        /\ Len(ret[p].before) >= 2
        /\ ret[p].before[1].pricing.modelId = ret[p].newPrices[2].modelId
        /\ ret[p].before[2].pricing.modelId = ret[p].newPrices[1].modelId
        /\ Len(ret[p].changes) = 1
        /\ ret[p].changes[1].changeType = "updated"

-----------------------------------------------------------------------------
(* The Pricing Client: how a deprecation is signalled, what clearCache clears *)

C39_ClearCacheFrame ==
    [][/\ \A p \in CacheKeys :
             ClearCache(p) =>
                /\ cache'[p] = NoEntry
                /\ \A j \in CacheKeys \ {p} : cache'[j] = cache[j]
                /\ external' = external
                /\ shown' = shown /\ signals' = signals
       /\ ClearCacheAll =>
             /\ \A k \in CacheKeys : cache'[k] = NoEntry
             /\ external' = external
             /\ shown' = shown /\ signals' = signals
       /\ \A t \in Tasks :
             (/\ Entered(t)
              /\ ~cfg.externalCache
              /\ isBuiltInProvider(lk'[t].eff)
              /\ cache[lk'[t].eff] = NoEntry) =>
                 lk'[t].pc = "fetch" /\ lk'[t].fetched = 1]_vars

\* after clearCache(p) for a provider whose deprecation had been signalled, a
\* lookup for it fetches again, the entry of the other provider still in the
\* cache
C39_Witness ==
    \E t \in Tasks :
       /\ ~cfg.externalCache
       /\ lk[t].pc = "fetch"
       /\ lk[t].eff \in shown
       /\ cache[lk[t].eff] = NoEntry
       /\ \E k \in CacheKeys \ {lk[t].eff} : cache[k] # NoEntry

-----------------------------------------------------------------------------
(* The Pricing Client: the sign of a cost *)

\* C40: for a record whose prices are not negative and token counts that are
\* not negative, the inputCost, the outputCost and the totalCost that
\* calculateCost returns are not negative.
C40_CostsNonNegative ==
    (/\ CostReturned
     /\ \A k \in DOMAIN fnIn.pricing :
           fnIn.pricing[k] = Undefined \/ fnIn.pricing[k] >= 0
     /\ \A k \in DOMAIN fnIn.tokens : fnIn.tokens[k] >= 0) =>
        /\ fnOut.result.cost.inputCost.m >= 0
        /\ fnOut.result.cost.outputCost.m >= 0
        /\ fnOut.result.cost.totalCost.m >= 0

====
